---------------------------- MODULE Spec2Model ----------------------------
(***************************************************************************)
(* Retrieval-augmented context engine of the tutoring chat server:         *)
(* VectorService (server/services/vectorService.ts), the storage layer     *)
(* that calls it (server/storage.ts), VideoService.deleteVideo and the     *)
(* routes of server/routes.ts that reach the vector index.                 *)
(*                                                                         *)
(* Units.  Time is counted in hours (one Tick = one hour), so the two-hour *)
(* retention window is 2.  A vector distance is a natural number; the      *)
(* composite score of scoreDocument is kept exact by scaling it with       *)
(* 10 * RetentionWindow (ScoreScale).  The embedding of a text is          *)
(* represented by the text itself (equal texts have equal vectors), and a  *)
(* query by the distance it has to each stored text.                       *)
(***************************************************************************)
EXTENDS Integers, Sequences, FiniteSets, TLC

\* ------------------------------------------------------------------ bounds
MaxTime     == 3      \* the clock stops after this many hours
MaxRows     == 2      \* rows the documents collection may hold
MaxVideoRows == 2     \* rows the video_transcripts collection may hold
MaxDocId    == 2      \* serial ids handed out per relational table
MaxSessionId == 1     \* chat sessions that may be created
MaxRestarts == 1      \* times the process may be started again
MaxDistance == 2      \* largest vector distance a search reports
MaxTopK     == 2      \* largest topK a caller asks for

\* ------------------------------------------------------- program constants
RetentionWindow == 2  \* 2 * 60 * 60 * 1000 ms, in hours
OverFetch       == 3  \* limit(topK * 3)

NoId == -1            \* JavaScript undefined for an optional numeric argument

Texts      == {"a", "b"}
ChunkLists == {<<>>, <<"a">>, <<"b">>, <<"a", "b">>}
Subjects   == {1, 2}
DocIds     == 1..MaxDocId
Times      == 0..MaxTime
TopKs      == 1..MaxTopK

\* <<documentId, subjectId, userId, sessionId, isTemporary>> of the direct
\* calls of processDocumentChunks; NoId is an argument left out.  A
\* permanent document, a temporary one of session (1, 1) that shares its
\* numeric id, a temporary one of another user, and a temporary one that
\* carries the zero owner.
IngestArgs == {<<1, 1, NoId, NoId, FALSE>>, <<1, 1, 1, 1, TRUE>>,
               <<2, 1, 2, 1, TRUE>>, <<2, 2, 0, 0, TRUE>>}
IngestedIds == {a[1] : a \in IngestArgs}
\* (userId, sessionId) of the upload route, of the user-session delete route
UploadArgs == {<<NoId, NoId>>, <<1, 1>>}
OwnerArgs  == {<<0, 0>>, <<1, 1>>}
UploadChunks == {<<"a">>}
\* the one-chunk text ingested with each entry of IngestArgs where ranking
\* is studied: permanent rows carry one text, temporary rows the other
SingleChunk(a) == IF a[5] THEN <<"a">> ELSE <<"b">>
CombinedTopKs == {1, 4}

\* Outcomes of one run of initialize(): which awaited call throws, if any.
InitOutcomes == {"ok", "connect", "createVideoTable", "cleanup"}
BootOutcomes == {"ok", "connect"}

\* A query is known by the distance of its embedding to every text; the
\* placeholder rows carry the zero vector, at distance 1 of a unit vector
AllTexts == Texts \cup {"init", "schema"}
Profile(a, b) ==
  [x \in AllTexts |-> CASE x = "a" -> a [] x = "b" -> b [] OTHER -> 1]
Queries  == {Profile(0, MaxDistance), Profile(MaxDistance, 0), Profile(1, 1)}

\* <<query, subjectId, userId, sessionId>> of the retrieval calls: the
\* caller of session (1, 1), a caller who passes zeros, and no identity
SearchArgs ==
  {<<Profile(0, MaxDistance), NoId, 1, 1>>,
   <<Profile(MaxDistance, 0), NoId, 1, 1>>,
   <<Profile(1, 1), 1, 1, 1>>,
   <<Profile(1, 1), NoId, 0, 0>>,
   <<Profile(0, MaxDistance), NoId, NoId, NoId>>,
   <<Profile(MaxDistance, 0), 1, NoId, NoId>>}

VARIABLES
  now,                \* Date.now(), in hours
  pc,                 \* "boot": registerRoutes has not run; "serving"
  db, table, videoTable,      \* VectorService fields (handle set or null)
  tableNames,         \* collections that exist in the store
  docRows,            \* rows of the "documents" collection, in write order
  videoRows,          \* rows of the "video_transcripts" collection
  temporaryDocuments, \* relational table temporary_documents
  chatSessions,       \* relational table chat_sessions
  nextId,             \* serial counters of the relational tables
  cleanupScheduled,   \* the hourly setInterval of registerRoutes is armed
  restarts,           \* how often the process has been started again
  lastOp,             \* history: the operation that ran last and its effect
  lastSearch,         \* history: what the last retrieval returned
  purged,             \* history: documentIds deleted from the index and not
                      \* ingested since
  calls               \* the calls in flight that are followed await by await

vars == <<now, pc, db, table, videoTable, tableNames, docRows, videoRows,
          temporaryDocuments, chatSessions, nextId, cleanupScheduled,
          restarts, lastOp, lastSearch, purged, calls>>

relational == <<temporaryDocuments, chatSessions, nextId>>

\* ----------------------------------------------------------- sequence aids
RECURSIVE SelectSeqBy(_, _)
\* Array.prototype.filter with the kept positions given as a set
SelectSeqBy(s, keep) ==
  IF s = <<>> THEN <<>>
  ELSE LET n == Len(s)
           front == SelectSeqBy(SubSeq(s, 1, n - 1), keep)
       IN IF n \in keep THEN Append(front, s[n]) ELSE front

Range(s) == {s[i] : i \in DOMAIN s}

Take(s, n) == SubSeq(s, 1, IF n < Len(s) THEN n ELSE Len(s))

RECURSIVE InsertByKey(_, _)
InsertByKey(s, x) ==
  IF s = <<>> THEN <<x>>
  ELSE IF x.key < Head(s).key THEN <<x>> \o s
       ELSE <<Head(s)>> \o InsertByKey(Tail(s), x)

RECURSIVE SortByKey(_)
\* stable ascending sort on the field key (Array.prototype.sort is stable)
SortByKey(s) ==
  IF s = <<>> THEN <<>>
  ELSE InsertByKey(SortByKey(SubSeq(s, 1, Len(s) - 1)), s[Len(s)])

Max0(x) == IF x > 0 THEN x ELSE 0

\* ------------------------------------------------------ the service record
\* The VectorService fields and the store they point at, as one value that
\* the methods below transform.
\* dropped collects the collections a call has passed to db.dropTable
VS == [db |-> db, table |-> table, videoTable |-> videoTable,
       tableNames |-> tableNames, docRows |-> docRows,
       videoRows |-> videoRows, dropped |-> {}]

SetVS(v) ==
  /\ db' = v.db
  /\ table' = v.table
  /\ videoTable' = v.videoTable
  /\ tableNames' = v.tableNames
  /\ docRows' = v.docRows
  /\ videoRows' = v.videoRows

InitDocRow(t) ==
  [text |-> "init", documentId |-> 0, chunkIndex |-> 0, subjectId |-> 0,
   userId |-> 0, sessionId |-> 0, isTemporary |-> FALSE, createdAt |-> t]

InitVideoRow(t) ==
  [text |-> "init", videoId |-> 0, chunkId |-> 0, subjectId |-> 0,
   createdAt |-> t]

\* table.delete(`"text" = 'init'`)
DeleteInit(rows) == SelectSeqBy(rows, {i \in DOMAIN rows : rows[i].text # "init"})

\* VectorService.initialize: drops and recreates both collections.  The
\* result says whether it returned (ok) or threw, and the state it left.
Initialize(v, f, t) ==
  IF f = "connect" THEN [ok |-> FALSE, vs |-> v]
  ELSE
    LET v1 == [v EXCEPT !.db = TRUE,
                        !.table = TRUE,
                        !.tableNames = @ \cup {"documents"},
                        !.docRows = <<InitDocRow(t)>>,
                        !.dropped = @ \cup v.tableNames]
    IN IF f = "createVideoTable"
       THEN [ok |-> FALSE,
             vs |-> [v1 EXCEPT !.tableNames = @ \ {"video_transcripts"},
                               !.videoRows = <<>>]]
       ELSE
         LET v2 == [v1 EXCEPT !.videoTable = TRUE,
                              !.tableNames = @ \cup {"video_transcripts"},
                              !.videoRows = <<InitVideoRow(t)>>]
         IN IF f = "cleanup"
            THEN [ok |-> TRUE, vs |-> v2]
            ELSE [ok |-> TRUE,
                  vs |-> [v2 EXCEPT !.docRows = DeleteInit(@),
                                    !.videoRows = DeleteInit(@)]]

\* `if (!this.table) await this.initialize()`
EnsureTable(v, f, t) ==
  IF v.table THEN [ok |-> TRUE, vs |-> v] ELSE Initialize(v, f, t)

\* `if (!this.videoTable) await this.initialize()`
EnsureVideoTable(v, f, t) ==
  IF v.videoTable THEN [ok |-> TRUE, vs |-> v] ELSE Initialize(v, f, t)


\* ---------------------------------------------------------------- ingestion
\* `userId || 0`: a missing (or zero) id is stored as 0
OrZero(x) == IF x = NoId THEN 0 ELSE x

\* the records built by chunks.map(async (chunk, index) => ...)
ChunkRecords(documentId, subjectId, chunks, userId, sessionId, isTemporary, t) ==
  [i \in 1..Len(chunks) |->
     [text |-> chunks[i], documentId |-> documentId, chunkIndex |-> i - 1,
      subjectId |-> subjectId, userId |-> OrZero(userId),
      sessionId |-> OrZero(sessionId), isTemporary |-> isTemporary,
      createdAt |-> t]]

\* the time at which the embedding of the chunk at position i resolved
DoneAt(done, i) == done[CHOOSE k \in DOMAIN done : done[k][1] = i][2]

\* the array Promise.all resolves to, were each record numbered and placed
\* as its embedding arrives
BatchRecordsByCompletion(documentId, subjectId, chunks, userId, sessionId, isTemporary, done) ==
  [k \in 1..Len(chunks) |->
     [text |-> chunks[done[k][1]], documentId |-> documentId,
      chunkIndex |-> k - 1, subjectId |-> subjectId,
      userId |-> OrZero(userId), sessionId |-> OrZero(sessionId),
      isTemporary |-> isTemporary, createdAt |-> done[k][2]]]

\* the array Promise.all resolves to: one record per chunk, at the chunk's
\* position and numbered by it, whatever the order in done
BatchRecords(documentId, subjectId, chunks, userId, sessionId, isTemporary, done) ==
  [i \in 1..Len(chunks) |->
     [text |-> chunks[i], documentId |-> documentId, chunkIndex |-> i - 1,
      subjectId |-> subjectId, userId |-> OrZero(userId),
      sessionId |-> OrZero(sessionId), isTemporary |-> isTemporary,
      createdAt |-> DoneAt(done, i)]]

\* VectorService.processDocumentChunks.  The bookkeeping on the relational
\* document_chunks rows that follows table.add is not part of the index.
ProcessDocumentChunks(v, f, documentId, subjectId, chunks, userId, sessionId, isTemporary, t) ==
  LET e == EnsureTable(v, f, t)
  IN IF ~e.ok THEN [ok |-> FALSE, vs |-> e.vs]
     ELSE IF Len(chunks) = 0 THEN [ok |-> TRUE, vs |-> e.vs]
     ELSE [ok |-> TRUE,
           vs |-> [e.vs EXCEPT !.docRows =
                     @ \o ChunkRecords(documentId, subjectId, chunks, userId,
                                       sessionId, isTemporary, t)]]

\* VectorService.processTemporaryDocumentChunks
ProcessTemporaryDocumentChunks(v, f, documentId, userId, sessionId, subjectId, chunks, t) ==
  ProcessDocumentChunks(v, f, documentId, subjectId, chunks, userId,
                        sessionId, TRUE, t)

\* ----------------------------------------------------------------- deletion
\* table.delete(predicate) followed by the countRows difference; hits are
\* the positions of the rows the predicate matches
DeleteWhere(e, hits) ==
  LET rows == e.vs.docRows
      kept == SelectSeqBy(rows, DOMAIN rows \ hits)
  IN [ok |-> TRUE,
      vs |-> [e.vs EXCEPT !.docRows = kept],
      count |-> Len(rows) - Len(kept)]

\* the positions of the rows of a document
HitsOfDocument(rows, documentId) ==
  {i \in DOMAIN rows : rows[i].documentId = documentId}

\* deleteVectorsByDocumentId as it would be with `AND "isTemporary" = false`
\* in the predicate: the rows of a temporary document stay
DeleteVectorsOfPermanentDocument(v, f, documentId, t) ==
  LET e == EnsureTable(v, f, t)
      rows == e.vs.docRows
  IN IF ~e.ok THEN [ok |-> FALSE, vs |-> e.vs, count |-> 0]
     ELSE DeleteWhere(e, {i \in HitsOfDocument(rows, documentId) :
                            ~rows[i].isTemporary})

\* deleteVectorsByDocumentId as it would be if the store deleted one
\* matching row per call: the first row of the document goes, the rest stay
DeleteFirstVectorByDocumentId(v, f, documentId, t) ==
  LET e == EnsureTable(v, f, t)
      hits == HitsOfDocument(e.vs.docRows, documentId)
  IN IF ~e.ok THEN [ok |-> FALSE, vs |-> e.vs, count |-> 0]
     ELSE DeleteWhere(e, {i \in hits : \A j \in hits : i <= j})

\* VectorService.deleteVectorsByDocumentId: `"documentId" = ${documentId}`
DeleteVectorsByDocumentId(v, f, documentId, t) ==
  LET e == EnsureTable(v, f, t)
  IN IF ~e.ok THEN [ok |-> FALSE, vs |-> e.vs, count |-> 0]
     ELSE DeleteWhere(e, HitsOfDocument(e.vs.docRows, documentId))

\* `"userId" = ${userId} AND "sessionId" = ${sessionId} AND "isTemporary" = true`
HitsOfUserSession(rows, userId, sessionId) ==
  {i \in DOMAIN rows : /\ rows[i].userId = userId
                       /\ rows[i].sessionId = sessionId
                       /\ rows[i].isTemporary}

\* VectorService.deleteVectorsByUserSession
DeleteVectorsByUserSession(v, f, userId, sessionId, t) ==
  LET e == EnsureTable(v, f, t)
  IN IF ~e.ok THEN [ok |-> FALSE, vs |-> e.vs, count |-> 0]
     ELSE DeleteWhere(e, HitsOfUserSession(e.vs.docRows, userId, sessionId))

\* twoHoursAgo.setHours(twoHoursAgo.getHours() - 2), taken in a time zone
\* without a clock change inside the window
CutoffDate(t) == t - RetentionWindow

\* `"isTemporary" = true AND "createdAt" < '${cutoffDate}'`
HitsExpired(rows, cutoffDate) ==
  {i \in DOMAIN rows : rows[i].isTemporary /\ rows[i].createdAt < cutoffDate}

\* VectorService.cleanupExpiredTemporaryVectors
CleanupExpiredTemporaryVectors(v, f, t) ==
  LET e == EnsureTable(v, f, t)
  IN IF ~e.ok THEN [ok |-> FALSE, vs |-> e.vs, count |-> 0]
     ELSE DeleteWhere(e, HitsExpired(e.vs.docRows, CutoffDate(t)))

\* ------------------------------------------------------------- statistics
\* `.limit(10000)` of the scan behind the statistics
StatsLimit == 10000

\* the counts of getVectorStats: countRows(), and the filters over the rows
\* the zero-vector search hands back
VectorStats(rows, t) ==
  LET allRecords == Take(rows, StatsLimit)
  IN [totalCount |-> Len(rows),
      temporaryCount |->
        Cardinality({i \in DOMAIN allRecords : allRecords[i].isTemporary}),
      permanentCount |->
        Cardinality({i \in DOMAIN allRecords :
                       \/ ~allRecords[i].isTemporary
                       \/ (allRecords[i].userId = 0 /\ allRecords[i].sessionId = 0)}),
      expiredCount |->
        Cardinality({i \in DOMAIN allRecords :
                       /\ allRecords[i].isTemporary
                       /\ allRecords[i].createdAt < CutoffDate(t)}),
      cutoffDate |-> CutoffDate(t)]

\* VectorService.getVectorStats
GetVectorStats(v, f, t) ==
  LET e == EnsureTable(v, f, t)
  IN IF ~e.ok THEN [ok |-> FALSE, vs |-> e.vs, stats |-> <<>>]
     ELSE [ok |-> TRUE, vs |-> e.vs, stats |-> <<VectorStats(e.vs.docRows, t)>>]

\* ---------------------------------------------------------------- retrieval
ScoreScale == 10 * RetentionWindow

\* the three filters of searchDocumentsWithContext, on one raw result
IsTemporaryDoc(r, userId, sessionId) ==
  r.isTemporary = TRUE /\ r.userId = userId /\ r.sessionId = sessionId

IsPermanentDoc(r) ==
  r.isTemporary = FALSE \/ (r.userId = 0 /\ r.sessionId = 0)

IsOtherDoc(r, userId, sessionId) ==
  r.isTemporary = TRUE /\ (r.userId # userId \/ r.sessionId # sessionId)

\* the decay as it would be without Math.max(0, ...)
TemporalScoreUnclamped(r, t) ==
  IF r.createdAt = NoId THEN 0 ELSE RetentionWindow - (t - r.createdAt)

\* `doc.createdAt ? Math.max(0, 1 - (Date.now() - createdAt) / (2h)) : 0`,
\* times RetentionWindow; a createdAt that is missing is NoId
TemporalScore(r, t) ==
  IF r.createdAt = NoId THEN 0 ELSE Max0(RetentionWindow - (t - r.createdAt))

\* scoreDocument as it would be with the permanent bucket given the
\* temporary bucket's offset of 10
ScoreDocumentSharedOffset(d, category, t) ==
  LET semantic == RetentionWindow * (1 - d.distance)
      temporal == TemporalScore(d.row, t)
  IN CASE category = "temporary" -> 1 * semantic + 9 * temporal + 10 * ScoreScale
       [] category = "permanent" -> 5 * semantic + 5 * temporal + 10 * ScoreScale
       [] OTHER                  -> 8 * semantic + 2 * temporal

\* scoreDocument, times ScoreScale
ScoreDocument(d, category, t) ==
  LET semantic == RetentionWindow * (1 - d.distance)
      temporal == TemporalScore(d.row, t)
  IN CASE category = "temporary" -> 1 * semantic + 9 * temporal + 10 * ScoreScale
       [] category = "permanent" -> 5 * semantic + 5 * temporal + 5 * ScoreScale
       [] OTHER                  -> 8 * semantic + 2 * temporal

\* the no-identity score `1 - (doc._distance || 0) + 5`, times ScoreScale
FallbackScore(d) == ScoreScale * (1 - d.distance + 5)

\* table.search(queryEmbedding).limit(n).execute(): the n nearest rows,
\* nearest first, each with its _distance; pos is the physical row
RawSearch(rows, q, n) ==
  Take(SortByKey([i \in DOMAIN rows |->
                    [pos |-> i, row |-> rows[i], distance |-> q[rows[i].text],
                     key |-> q[rows[i].text]]]), n)

Label(s, category, t, fallback) ==
  [i \in DOMAIN s |->
     LET score == IF fallback THEN FallbackScore(s[i])
                  ELSE ScoreDocument(s[i], category, t)
     IN [pos |-> s[i].pos, row |-> s[i].row, distance |-> s[i].distance,
         category |-> IF fallback THEN "permanent" ELSE category,
         score |-> score, key |-> 0 - score]]

Unkey(s) ==
  [i \in DOMAIN s |->
     [pos |-> s[i].pos, row |-> s[i].row, distance |-> s[i].distance,
      category |-> s[i].category, score |-> s[i].score]]

\* the subject filter as it would be if it were applied on the identified
\* path only
FilterBySubjectWithIdentity(results, subjectId, userId, sessionId) ==
  IF subjectId # NoId /\ userId # NoId /\ sessionId # NoId
  THEN SelectSeqBy(results, {i \in DOMAIN results :
                               results[i].row.subjectId = subjectId})
  ELSE results

\* `if (subjectId !== undefined && subjectId !== null) results =
\* results.filter(r => r.subjectId === subjectId)`, ahead of both paths
FilterBySubject(results, subjectId, userId, sessionId) ==
  IF subjectId # NoId
  THEN SelectSeqBy(results, {i \in DOMAIN results :
                               results[i].row.subjectId = subjectId})
  ELSE results

\* the scored candidates of searchDocumentsWithContext: the raw results
\* that pass the subject filter, bucket by bucket, each with its score
ScoredResults(rows, q, subjectId, userId, sessionId, topK, t) ==
  LET raw == RawSearch(rows, q, topK * OverFetch)
      results == FilterBySubject(raw, subjectId, userId, sessionId)
      temporaryDocs == SelectSeqBy(results, {i \in DOMAIN results :
                         IsTemporaryDoc(results[i].row, userId, sessionId)})
      permanentDocs == SelectSeqBy(results, {i \in DOMAIN results :
                         IsPermanentDoc(results[i].row)})
      otherDocs == SelectSeqBy(results, {i \in DOMAIN results :
                         IsOtherDoc(results[i].row, userId, sessionId)})
      fallback == userId = NoId \/ sessionId = NoId
  IN Label(temporaryDocs, "temporary", t, fallback)
     \o Label(permanentDocs, "permanent", t, fallback)
     \o Label(otherDocs, "other", t, fallback)

\* the ranking as it would be with slice(0, topK) taken before the sort
RankDocumentsSliceFirst(rows, q, subjectId, userId, sessionId, topK, t) ==
  Unkey(SortByKey(Take(ScoredResults(rows, q, subjectId, userId, sessionId, topK, t), topK)))

\* the ranking part of searchDocumentsWithContext, from the raw results on:
\* `.sort((a, b) => b.score - a.score).slice(0, topK)`
RankDocuments(rows, q, subjectId, userId, sessionId, topK, t) ==
  Unkey(Take(SortByKey(ScoredResults(rows, q, subjectId, userId, sessionId, topK, t)), topK))

\* VectorService.searchDocumentsWithContext
SearchDocumentsWithContext(v, f, q, subjectId, userId, sessionId, topK, t) ==
  LET e == EnsureTable(v, f, t)
  IN IF ~e.ok THEN [ok |-> FALSE, vs |-> e.vs, results |-> <<>>]
     ELSE [ok |-> TRUE, vs |-> e.vs,
           results |-> RankDocuments(e.vs.docRows, q, subjectId, userId,
                                     sessionId, topK, t)]

\* VectorService.searchDocuments
SearchDocuments(v, f, q, subjectId, topK, t) ==
  SearchDocumentsWithContext(v, f, q, subjectId, NoId, NoId, topK, t)

\* the number of results generateAnswerWithContext asks for
ContextTopK == 5

\* VectorService.generateAnswerWithContext: the five best results become
\* relevantDocs; a failure of the search is thrown on
GenerateAnswerWithContext(v, f, q, subjectId, userId, sessionId, t) ==
  LET r == SearchDocumentsWithContext(v, f, q, subjectId, userId, sessionId, ContextTopK, t)
  IN [ok |-> r.ok, vs |-> r.vs, relevantDocs |-> r.results]

\* ------------------------------------------------------ video transcripts
\* `chunk.text && chunk.text.trim().length > 0` fails
IsBlank(text) == text \in {"", " "}

\* VectorService.processVideoTranscriptChunks; the chunks are the rows that
\* videoStorage.createTranscriptChunks returned, whose serial id is stood
\* for by the position of the chunk
ProcessVideoTranscriptChunks(v, f, videoId, subjectId, transcriptChunks, t) ==
  LET e == EnsureVideoTable(v, f, t)
      all == [i \in 1..Len(transcriptChunks) |->
                [text |-> transcriptChunks[i], videoId |-> videoId,
                 chunkId |-> i, subjectId |-> subjectId, createdAt |-> t]]
      vectorData == SelectSeqBy(all, {i \in DOMAIN all : ~IsBlank(all[i].text)})
  IN IF ~e.ok THEN [ok |-> FALSE, vs |-> e.vs]
     ELSE [ok |-> TRUE, vs |-> [e.vs EXCEPT !.videoRows = @ \o vectorData]]

\* VectorService.searchVideoTranscripts: `if (subjectId)` filters in the
\* store, before the limit
SearchVideoTranscripts(v, f, q, subjectId, topK, t) ==
  LET e == EnsureVideoTable(v, f, t)
      rows == e.vs.videoRows
      scoped == IF subjectId # NoId /\ subjectId # 0
                THEN SelectSeqBy(rows, {i \in DOMAIN rows :
                                          rows[i].subjectId = subjectId})
                ELSE rows
      raw == RawSearch(scoped, q, topK)
  IN IF ~e.ok THEN [ok |-> FALSE, vs |-> e.vs, results |-> <<>>]
     ELSE [ok |-> TRUE, vs |-> e.vs,
           results |-> [i \in DOMAIN raw |->
                          [text |-> raw[i].row.text,
                           videoId |-> raw[i].row.videoId,
                           chunkId |-> raw[i].row.chunkId,
                           subjectId |-> raw[i].row.subjectId,
                           score |-> raw[i].distance]]]

\* VectorService.deleteVideoVectors.  A failed lazy initialize throws (it is
\* outside the try); rows are deleted one by one by `vector = [...]`, which
\* matches every row that carries the same vector.
DeleteVideoVectors(v, f, videoId, t) ==
  LET e == EnsureVideoTable(v, f, t)
      allRecords == e.vs.videoRows
      recordsToKeep == SelectSeqBy(allRecords, {i \in DOMAIN allRecords :
                                      allRecords[i].videoId # videoId})
      recordsToDelete == SelectSeqBy(allRecords, {i \in DOMAIN allRecords :
                                      allRecords[i].videoId = videoId})
      vectors == {recordsToDelete[i].text : i \in DOMAIN recordsToDelete}
  IN IF ~e.ok THEN [ok |-> FALSE, vs |-> e.vs, count |-> 0]
     ELSE IF Len(recordsToDelete) = 0
          THEN [ok |-> TRUE, vs |-> e.vs, count |-> 0]
     ELSE IF Len(recordsToKeep) = 0
          THEN [ok |-> TRUE,
                vs |-> [e.vs EXCEPT !.videoTable = TRUE,
                                    !.tableNames = @ \cup {"video_transcripts"},
                                    !.dropped = @ \cup {"video_transcripts"},
                                    !.videoRows = DeleteInit(<<InitVideoRow(t)>>)],
                count |-> Len(recordsToDelete)]
     ELSE [ok |-> TRUE,
           vs |-> [e.vs EXCEPT !.videoRows =
                     SelectSeqBy(allRecords, {i \in DOMAIN allRecords :
                                   allRecords[i].text \notin vectors})],
           count |-> Len(recordsToDelete)]

\* getVideoSchema(): the row a recreated video_transcripts is created with
SchemaVideoRow(t) ==
  [text |-> "schema", videoId |-> 0, chunkId |-> 0, subjectId |-> 0,
   createdAt |-> t]

\* VectorService.cleanupAllVideoVectors: dropTable, then createTable with
\* getVideoSchema(); nothing deletes the schema row afterwards
CleanupAllVideoVectors(v, f, t) ==
  LET e == EnsureVideoTable(v, f, t)
  IN IF ~e.ok THEN [ok |-> FALSE, vs |-> e.vs]
     ELSE [ok |-> TRUE,
           vs |-> [e.vs EXCEPT !.videoTable = TRUE,
                               !.tableNames = @ \cup {"video_transcripts"},
                               !.dropped = @ \cup {"video_transcripts"},
                               !.videoRows = <<SchemaVideoRow(t)>>]]

\* Math.ceil(topK * 0.7) and Math.floor(topK * 0.3)
DocCount(topK)   == (7 * topK + 9) \div 10
\* the transcript share as it would be with Math.ceil
VideoCountCeil(topK) == (3 * topK + 9) \div 10
VideoCount(topK) == (3 * topK) \div 10

\* the boost as it would be with the other videos' results put first in the
\* array that is sorted: a tie of boosted and raw score goes to the other
\* video
BoostVideosOthersFirst(videoResults, currentVideoId, videoCount) ==
  LET currentVideoResults == SelectSeqBy(videoResults,
        {i \in DOMAIN videoResults : videoResults[i].videoId = currentVideoId})
      otherVideoResults == SelectSeqBy(videoResults,
        {i \in DOMAIN videoResults : videoResults[i].videoId # currentVideoId})
      keyed(s, k) == [i \in DOMAIN s |->
                        [text |-> s[i].text, videoId |-> s[i].videoId,
                         chunkId |-> s[i].chunkId, subjectId |-> s[i].subjectId,
                         score |-> s[i].score, key |-> k * s[i].score]]
      sorted == SortByKey(keyed(otherVideoResults, 2)
                          \o keyed(currentVideoResults, 1))
  IN Take([i \in DOMAIN sorted |->
             [text |-> sorted[i].text, videoId |-> sorted[i].videoId,
              chunkId |-> sorted[i].chunkId, subjectId |-> sorted[i].subjectId,
              score2 |-> sorted[i].key]], videoCount)

\* the current-video boost of searchCombinedForVideoQA: `r.score * 0.5` is
\* kept exact by doubling every score
BoostVideos(videoResults, currentVideoId, videoCount) ==
  LET currentVideoResults == SelectSeqBy(videoResults,
        {i \in DOMAIN videoResults : videoResults[i].videoId = currentVideoId})
      otherVideoResults == SelectSeqBy(videoResults,
        {i \in DOMAIN videoResults : videoResults[i].videoId # currentVideoId})
      keyed(s, k) == [i \in DOMAIN s |->
                        [text |-> s[i].text, videoId |-> s[i].videoId,
                         chunkId |-> s[i].chunkId, subjectId |-> s[i].subjectId,
                         score |-> s[i].score, key |-> k * s[i].score]]
      sorted == SortByKey(keyed(currentVideoResults, 1)
                          \o keyed(otherVideoResults, 2))
  IN Take([i \in DOMAIN sorted |->
             [text |-> sorted[i].text, videoId |-> sorted[i].videoId,
              chunkId |-> sorted[i].chunkId, subjectId |-> sorted[i].subjectId,
              score2 |-> sorted[i].key]], videoCount)

Unboosted(videoResults, videoCount) ==
  Take([i \in DOMAIN videoResults |->
          [text |-> videoResults[i].text, videoId |-> videoResults[i].videoId,
           chunkId |-> videoResults[i].chunkId,
           subjectId |-> videoResults[i].subjectId,
           score2 |-> 2 * videoResults[i].score]], videoCount)

\* VectorService.searchCombinedForVideoQA; currentVideoId NoId or 0 is
\* `if (currentVideoId)` false
SearchCombinedForVideoQA(v, f, f2, q, subjectId, topK, currentVideoId, t) ==
  LET docs == SearchDocuments(v, f, q, subjectId, DocCount(topK), t)
      vids == SearchVideoTranscripts(docs.vs, f2, q, subjectId,
                                     VideoCount(topK) + 3, t)
      videoResults == IF currentVideoId # NoId /\ currentVideoId # 0
                      THEN BoostVideos(vids.results, currentVideoId,
                                       VideoCount(topK))
                      ELSE Unboosted(vids.results, VideoCount(topK))
  IN IF ~docs.ok
     THEN [ok |-> FALSE, vs |-> docs.vs, documents |-> <<>>, videos |-> <<>>,
           totalSources |-> 0]
     ELSE IF ~vids.ok
     THEN [ok |-> FALSE, vs |-> vids.vs, documents |-> <<>>, videos |-> <<>>,
           totalSources |-> 0]
     ELSE [ok |-> TRUE, vs |-> vids.vs,
           documents |-> docs.results,
           videos |-> videoResults,
           totalSources |-> Len(videoResults) + Len(docs.results)]

\* ------------------------------------------------------------ storage layer
\* DatabaseStorage.deleteDocument: vectors first (errors swallowed), then
\* the relational row
DeleteDocument(v, f, id, t) == DeleteVectorsByDocumentId(v, f, id, t).vs

\* DatabaseStorage.deleteChatSession: vectors of (session.userId, id) when
\* the session exists (errors swallowed)
DeleteChatSession(v, f, id, t) ==
  IF \E s \in chatSessions : s.id = id
  THEN LET session == CHOOSE s \in chatSessions : s.id = id
       IN DeleteVectorsByUserSession(v, f, session.userId, id, t).vs
  ELSE v

\* the temporary_documents rows with createdAt < twoHoursAgo
ExpiredDocs(t) == {d \in temporaryDocuments : d.createdAt < CutoffDate(t)}

RECURSIVE DeleteVectorsOfDocs(_, _, _, _)
\* the loop of cleanupExpiredTemporaryDocuments over expiredDocs
DeleteVectorsOfDocs(v, f, docs, t) ==
  IF docs = {} THEN v
  ELSE LET doc == CHOOSE d \in docs : TRUE
       IN DeleteVectorsOfDocs(
            DeleteVectorsByUserSession(v, f, doc.userId, doc.sessionId, t).vs,
            f, docs \ {doc}, t)

\* DatabaseStorage.cleanupExpiredTemporaryDocuments, its effect on the index
CleanupExpiredTemporaryDocuments(v, f, t) ==
  DeleteVectorsOfDocs(v, f, ExpiredDocs(t), t)

\* ------------------------------------------------------------- history aids
Count(s, x) == Cardinality({i \in DOMAIN s : s[i] = x})

\* the rows of old that new no longer holds
Removed(old, new) == {x \in Range(old) : Count(old, x) > Count(new, x)}

RowsOf(rows, documentId) ==
  SelectSeqBy(rows, {i \in DOMAIN rows : rows[i].documentId = documentId})

NoSearch == [kind |-> "none", subjectId |-> NoId, userId |-> NoId,
             sessionId |-> NoId, topK |-> 0, currentVideoId |-> NoId,
             documents |-> <<>>, videos |-> <<>>, totalSources |-> 0]

NoOp == [name |-> "none", id |-> 0, ok |-> TRUE, removed |-> {}, args |-> <<>>,
        dropped |-> {}, response |-> <<>>]

\* the callers whose calls are followed await by await
MaxCallers == 2
Callers == 1..MaxCallers

\* the frame of a caller with no call in flight
NoCall == [op |-> "none", pc |-> "idle", args |-> <<>>, ok |-> TRUE,
           beforeCount |-> 0, cutoffDate |-> 0, removed |-> 0, count |-> 0,
           done |-> <<>>]

\* the operations that write rows of a document: their args are
\* <<subjectId, chunks, userId, sessionId, isTemporary>>
IngestOps == {"processDocumentChunks", "retryIngestion", "uploadDocument",
              "uploadTemporaryDocument"}

\* no call is waiting to hand back its result
Idle == lastOp.name = "none"

\* the routes that create a record and then index it
CreateOps == {"uploadDocument", "uploadTemporaryDocument", "createVideoWithChunks"}

\* the calls whose return value is followed: it travels as the tuple of the
\* call
ResultOps == {"getVectorStats", "deleteVideoVectors"}

ResponseVectorFatal(name, id, ok, args) ==
  CASE name \in CreateOps /\ ok -> <<id>>
    [] name = "chatSend" /\ ok -> <<"assistant", args[1]>>
    [] name \in ResultOps -> args
    [] OTHER -> <<>>

\* what the caller is handed back by the routes that index or retrieve as a
\* side step: the created record (res.json({ document }), return video), or
\* the assistant message with the system prompt it was generated from; the
\* catch around the vector step lets the route go on. The other operations'
\* bodies are not followed.
Response(name, id, ok, args) ==
  CASE name \in CreateOps -> <<id>>
    [] name = "chatSend" -> <<"assistant", args[1]>>
    [] name \in ResultOps -> args
    [] OTHER -> <<>>

\* the effect of a call on the service and the store; a collection grows
\* within the bounds only
Effect(name, id, ok, v, args) ==
  /\ SetVS(v)
  /\ UNCHANGED calls
  /\ Len(v.docRows) <= IF Len(docRows) > MaxRows THEN Len(docRows) ELSE MaxRows
  /\ Len(v.videoRows) <= IF Len(videoRows) > MaxVideoRows THEN Len(videoRows)
                         ELSE MaxVideoRows
  /\ lastOp' = [name |-> name, id |-> id, ok |-> ok,
                removed |-> Removed(docRows, v.docRows), args |-> args,
                dropped |-> v.dropped, response |-> Response(name, id, ok, args)]
  /\ purged' = CASE name = "deleteVectorsByDocumentId" /\ ok -> purged \cup {id}
                  [] name = "retryIngestion" /\ args[2] = <<>> -> purged \cup {id}
                  [] name \in IngestOps /\ ok /\ args[2] # <<>> -> purged \ {id}
                  [] OTHER -> purged

Record(name, id, ok, v) == Idle /\ Effect(name, id, ok, v, <<>>)

\* ------------------------------------------------------------------- state
Init ==
  /\ now = 0
  /\ pc = "boot"
  /\ db = FALSE
  /\ table = FALSE
  /\ videoTable = FALSE
  /\ tableNames = {}
  /\ docRows = <<>>
  /\ videoRows = <<>>
  /\ temporaryDocuments = {}
  /\ chatSessions = {}
  /\ nextId = [doc |-> 1, temp |-> 1, session |-> 1, video |-> 1]
  /\ cleanupScheduled = FALSE
  /\ restarts = 0
  /\ lastOp = NoOp
  /\ lastSearch = NoSearch
  /\ purged = {}
  /\ calls = [c \in Callers |-> NoCall]

\* one hour passes
Tick ==
  /\ Idle
  /\ now < MaxTime
  /\ now' = now + 1
  /\ UNCHANGED <<pc, db, table, videoTable, tableNames, docRows, videoRows,
                 relational, cleanupScheduled, restarts, lastOp, lastSearch,
                 purged, calls>>

\* the caller has taken the result: the history of the call is dropped
Return ==
  /\ ~Idle
  /\ lastOp' = NoOp
  /\ lastSearch' = NoSearch
  /\ UNCHANGED <<now, pc, db, table, videoTable, tableNames, docRows,
                 videoRows, relational, cleanupScheduled, restarts, purged, calls>>

\* registerRoutes: initialize() at process start; the hourly cleanup is armed
\* only when it returned
RegisterRoutes(f) ==
  /\ pc = "boot"
  /\ LET r == Initialize(VS, f, now)
     IN /\ Record("registerRoutes", 0, r.ok, r.vs)
        /\ cleanupScheduled' = r.ok
  /\ pc' = "serving"
  /\ UNCHANGED <<now, relational, restarts, lastSearch>>

\* the process exits and starts again: the service object is new, the store
\* and the relational database stay
Restart ==
  /\ Idle
  /\ pc = "serving"
  /\ restarts < MaxRestarts
  /\ restarts' = restarts + 1
  /\ pc' = "boot"
  /\ db' = FALSE
  /\ table' = FALSE
  /\ videoTable' = FALSE
  /\ cleanupScheduled' = FALSE
  /\ UNCHANGED <<now, tableNames, docRows, videoRows, relational, lastOp,
                 lastSearch, purged, calls>>

\* POST /api/chat/sessions
CreateChatSession(userId) ==
  /\ Idle
  /\ pc = "serving"
  /\ nextId.session <= MaxSessionId
  /\ chatSessions' = chatSessions \cup {[id |-> nextId.session, userId |-> userId]}
  /\ nextId' = [nextId EXCEPT !.session = @ + 1]
  /\ UNCHANGED <<now, pc, db, table, videoTable, tableNames, docRows,
                 videoRows, temporaryDocuments, cleanupScheduled, restarts,
                 lastOp, lastSearch, purged, calls>>

\* POST /api/documents/upload: the relational row, then the vectors (a
\* failure of the vector step is logged and the upload goes on)
UploadDocument(isTemp, subjectId, userId, sessionId, chunks, f) ==
  /\ pc = "serving"
  /\ IF isTemp
     THEN /\ nextId.temp <= MaxDocId
          /\ \E s \in chatSessions : s.id = sessionId
          /\ temporaryDocuments' = temporaryDocuments \cup
               {[id |-> nextId.temp, userId |-> userId,
                 sessionId |-> sessionId, createdAt |-> now]}
          /\ nextId' = [nextId EXCEPT !.temp = @ + 1]
          /\ LET r == ProcessTemporaryDocumentChunks(VS, f, nextId.temp, userId,
                        sessionId, subjectId, chunks, now)
             IN /\ Idle
                /\ Effect("uploadTemporaryDocument", nextId.temp, r.ok, r.vs,
                          <<subjectId, chunks, userId, sessionId, TRUE>>)
     ELSE /\ nextId.doc <= MaxDocId
          /\ userId = NoId /\ sessionId = NoId
          /\ nextId' = [nextId EXCEPT !.doc = @ + 1]
          /\ LET r == ProcessDocumentChunks(VS, f, nextId.doc, subjectId, chunks,
                        NoId, NoId, FALSE, now)
             IN /\ Idle
                /\ Effect("uploadDocument", nextId.doc, r.ok, r.vs,
                          <<subjectId, chunks, NoId, NoId, FALSE>>)
          /\ UNCHANGED temporaryDocuments
  /\ UNCHANGED <<now, pc, chatSessions, cleanupScheduled, restarts, lastSearch>>

\* a call of vectorService.processDocumentChunks with arguments of the
\* caller's choosing (as /api/vectors/reprocess-all makes)
ProcessDocumentChunksCall(documentId, subjectId, chunks, userId, sessionId, isTemporary, f) ==
  /\ pc = "serving"
  /\ Idle
  /\ LET r == ProcessDocumentChunks(VS, f, documentId, subjectId, chunks,
                                    userId, sessionId, isTemporary, now)
     IN Effect("processDocumentChunks", documentId, r.ok, r.vs,
               <<subjectId, chunks, userId, sessionId, isTemporary>>)
  /\ UNCHANGED <<now, pc, relational, cleanupScheduled, restarts, lastSearch>>

\* the retry path of a caller whose processDocumentChunks has returned:
\* deleteVectorsByDocumentId for the document, then processDocumentChunks
\* with the same arguments
RetryIngestion(f) ==
  /\ pc = "serving"
  /\ lastOp.name = "processDocumentChunks"
  /\ lastOp.ok
  /\ LET a == lastOp.args
         d == DeleteVectorsByDocumentId(VS, f, lastOp.id, now)
         r == ProcessDocumentChunks(d.vs, f, lastOp.id, a[1], a[2], a[3], a[4],
                                    a[5], now)
     IN /\ d.ok
        /\ Effect("retryIngestion", lastOp.id, r.ok, r.vs, a)
  /\ UNCHANGED <<now, pc, relational, cleanupScheduled, restarts, lastSearch>>

\* a call of vectorService.deleteVectorsByDocumentId
DeleteVectorsByDocumentIdCall(documentId, f) ==
  /\ pc = "serving"
  /\ LET r == DeleteVectorsByDocumentId(VS, f, documentId, now)
     IN Record("deleteVectorsByDocumentId", documentId, r.ok, r.vs)
  /\ UNCHANGED <<now, pc, relational, cleanupScheduled, restarts, lastSearch>>

\* DELETE /api/documents/:id: deleteVectorsByDocumentId (errors swallowed),
\* then storage.deleteDocument
DeleteDocumentRoute(id, f) ==
  /\ pc = "serving"
  /\ LET v1 == DeleteVectorsByDocumentId(VS, f, id, now).vs
         v2 == DeleteDocument(v1, f, id, now)
     IN Record("deleteDocument", id, TRUE, v2)
  /\ UNCHANGED <<now, pc, relational, cleanupScheduled, restarts, lastSearch>>

\* DatabaseStorage.deleteTemporaryDocument: the relational row only (for an
\* id that does not exist it changes nothing)
DeleteTemporaryDocument(id) ==
  /\ pc = "serving"
  /\ \E d \in temporaryDocuments : d.id = id
  /\ temporaryDocuments' = {d \in temporaryDocuments : d.id # id}
  /\ Record("deleteTemporaryDocument", id, TRUE, VS)
  /\ UNCHANGED <<now, pc, chatSessions, nextId, cleanupScheduled, restarts,
                 lastSearch>>

\* DELETE /api/chat/sessions/:sessionId: storage.deleteChatSession; the
\* temporary_documents rows of the session go with it (onDelete: cascade);
\* for a session that does not exist it changes nothing
DeleteChatSessionRoute(id, f) ==
  /\ pc = "serving"
  /\ \E s \in chatSessions : s.id = id
  /\ LET v1 == DeleteChatSession(VS, f, id, now)
     IN Record("deleteChatSession", id, TRUE, v1)
  /\ chatSessions' = {s \in chatSessions : s.id # id}
  /\ temporaryDocuments' = {d \in temporaryDocuments : d.sessionId # id}
  /\ UNCHANGED <<now, pc, nextId, cleanupScheduled, restarts, lastSearch>>

\* VideoService.createVideoWithChunks: the videos row, then the transcript
\* vectors (a failure of the vector step is logged and swallowed)
CreateVideoWithChunks(subjectId, chunks, f) ==
  /\ pc = "serving"
  /\ nextId.video <= MaxDocId
  /\ nextId' = [nextId EXCEPT !.video = @ + 1]
  /\ IF Len(chunks) > 0
     THEN LET r == ProcessVideoTranscriptChunks(VS, f, nextId.video, subjectId,
                                                chunks, now)
          IN Record("createVideoWithChunks", nextId.video, r.ok, r.vs)
     ELSE Record("createVideoWithChunks", nextId.video, TRUE, VS)
  /\ UNCHANGED <<now, pc, temporaryDocuments, chatSessions, cleanupScheduled,
                 restarts, lastSearch>>

\* DELETE /api/videos/:id: VideoService.deleteVideo; when the lazy
\* initialize inside deleteVideoVectors throws, the videos row stays
DeleteVideoRoute(videoId, f) ==
  /\ pc = "serving"
  /\ videoId < nextId.video
  /\ LET r == DeleteVideoVectors(VS, f, videoId, now)
     IN Record("deleteVideo", videoId, r.ok, r.vs)
  /\ UNCHANGED <<now, pc, relational, cleanupScheduled, restarts, lastSearch>>

\* a call of vectorService.deleteVideoVectors, with the number it returns
DeleteVideoVectorsCall(videoId, f) ==
  /\ pc = "serving"
  /\ LET r == DeleteVideoVectors(VS, f, videoId, now)
     IN Idle /\ Effect("deleteVideoVectors", videoId, r.ok, r.vs, <<r.count>>)
  /\ UNCHANGED <<now, pc, relational, cleanupScheduled, restarts, lastSearch>>

\* DELETE /api/vectors/video-cleanup
CleanupAllVideoVectorsRoute(f) ==
  /\ pc = "serving"
  /\ LET r == CleanupAllVideoVectors(VS, f, now)
     IN Record("cleanupAllVideoVectors", 0, r.ok, r.vs)
  /\ UNCHANGED <<now, pc, relational, cleanupScheduled, restarts, lastSearch>>

\* GET /api/vectors/stats: the counts are the response; they travel as the
\* tuple of the call
GetVectorStatsRoute(f) ==
  /\ pc = "serving"
  /\ LET r == GetVectorStats(VS, f, now)
     IN Idle /\ Effect("getVectorStats", 0, r.ok, r.vs, r.stats)
  /\ UNCHANGED <<now, pc, relational, cleanupScheduled, restarts, lastSearch>>

\* a call of vectorService.processVideoTranscriptChunks
ProcessVideoTranscriptChunksCall(videoId, subjectId, transcriptChunks, f) ==
  /\ pc = "serving"
  /\ Idle
  /\ LET r == ProcessVideoTranscriptChunks(VS, f, videoId, subjectId,
                                           transcriptChunks, now)
     IN Effect("processVideoTranscriptChunks", videoId, r.ok, r.vs,
               <<subjectId, transcriptChunks>>)
  /\ UNCHANGED <<now, pc, relational, cleanupScheduled, restarts, lastSearch>>

\* a call of vectorService.processTemporaryDocumentChunks (as
\* /api/vectors/reprocess-all makes)
ProcessTemporaryDocumentChunksCall(documentId, userId, sessionId, subjectId, chunks, f) ==
  /\ pc = "serving"
  /\ Idle
  /\ LET r == ProcessTemporaryDocumentChunks(VS, f, documentId, userId,
                                             sessionId, subjectId, chunks, now)
     IN Effect("processTemporaryDocumentChunks", documentId, r.ok, r.vs,
               <<subjectId, chunks, userId, sessionId, TRUE>>)
  /\ UNCHANGED <<now, pc, relational, cleanupScheduled, restarts, lastSearch>>

\* DELETE /api/vectors/user-session/:userId/:sessionId
DeleteVectorsByUserSessionRoute(userId, sessionId, f) ==
  /\ pc = "serving"
  /\ LET r == DeleteVectorsByUserSession(VS, f, userId, sessionId, now)
     IN Record("deleteVectorsByUserSession", sessionId, r.ok, r.vs)
  /\ UNCHANGED <<now, pc, relational, cleanupScheduled, restarts, lastSearch>>

\* POST /api/vectors/cleanup-expired: the expiry sweep on its own
CleanupExpiredTemporaryVectorsRoute(f) ==
  /\ pc = "serving"
  /\ LET r == CleanupExpiredTemporaryVectors(VS, f, now)
     IN Record("cleanupExpiredTemporaryVectors", 0, r.ok, r.vs)
  /\ UNCHANGED <<now, pc, relational, cleanupScheduled, restarts, lastSearch>>

\* POST /api/documents/cleanup-expired: storage.cleanupExpiredTemporaryDocuments
CleanupExpiredTemporaryDocumentsRoute(f) ==
  /\ pc = "serving"
  /\ LET v1 == CleanupExpiredTemporaryDocuments(VS, f, now)
     IN Record("cleanupExpiredTemporaryDocuments", 0, TRUE, v1)
  /\ temporaryDocuments' = temporaryDocuments \ ExpiredDocs(now)
  /\ UNCHANGED <<now, pc, chatSessions, nextId, cleanupScheduled, restarts,
                 lastSearch>>

\* the hourly setInterval callback of registerRoutes:
\* storage.cleanupExpiredTemporaryDocuments, then
\* vectorService.cleanupExpiredTemporaryVectors
PeriodicCleanup(f) ==
  /\ pc = "serving"
  /\ cleanupScheduled
  /\ LET v1 == CleanupExpiredTemporaryDocuments(VS, f, now)
         r  == CleanupExpiredTemporaryVectors(v1, f, now)
     IN Record("periodicCleanup", 0, r.ok, r.vs)
  /\ temporaryDocuments' = temporaryDocuments \ ExpiredDocs(now)
  /\ UNCHANGED <<now, pc, chatSessions, nextId, cleanupScheduled, restarts,
                 lastSearch>>

\* a call of vectorService.searchDocumentsWithContext (searchDocuments is
\* the call with both ids left out)
SearchDocumentsWithContextCall(q, subjectId, userId, sessionId, topK, f) ==
  /\ pc = "serving"
  /\ LET r == SearchDocumentsWithContext(VS, f, q, subjectId, userId,
                                         sessionId, topK, now)
     IN /\ Idle
        /\ Effect("searchDocumentsWithContext", 0, r.ok, r.vs, <<q>>)
        /\ lastSearch' = [kind |-> "context", subjectId |-> subjectId,
                          userId |-> userId, sessionId |-> sessionId,
                          topK |-> topK, currentVideoId |-> NoId,
                          documents |-> r.results, videos |-> <<>>,
                          totalSources |-> Len(r.results)]
  /\ UNCHANGED <<now, pc, relational, cleanupScheduled, restarts>>

\* POST /api/chat/send: the system prompt is the default one unless
\* generateAnswerWithContext returned with at least one document; then the
\* assistant message is generated and sent back. subjectId is the subject
\* of the session.
ChatSend(q, subjectId, userId, sessionId, f) ==
  /\ pc = "serving"
  /\ \E s \in chatSessions : s.id = sessionId
  /\ LET r == GenerateAnswerWithContext(VS, f, q, subjectId, userId, sessionId, now)
         systemPrompt == IF r.ok /\ Len(r.relevantDocs) > 0
                         THEN "context" ELSE "default"
     IN /\ Idle
        /\ Effect("chatSend", sessionId, r.ok, r.vs, <<systemPrompt>>)
        /\ lastSearch' = [kind |-> "chat", subjectId |-> subjectId,
                          userId |-> userId, sessionId |-> sessionId,
                          topK |-> ContextTopK, currentVideoId |-> NoId,
                          documents |-> r.relevantDocs, videos |-> <<>>,
                          totalSources |-> Len(r.relevantDocs)]
  /\ UNCHANGED <<now, pc, relational, cleanupScheduled, restarts>>

\* POST /api/videos/chat: vectorService.searchCombinedForVideoQA
SearchCombinedForVideoQACall(q, subjectId, topK, currentVideoId, f) ==
  /\ pc = "serving"
  /\ LET r == SearchCombinedForVideoQA(VS, f, f, q, subjectId, topK,
                                       currentVideoId, now)
     IN /\ Idle
        /\ Effect("searchCombinedForVideoQA", 0, r.ok, r.vs, <<q>>)
        /\ lastSearch' = [kind |-> "combined", subjectId |-> subjectId,
                          userId |-> NoId, sessionId |-> NoId,
                          topK |-> topK, currentVideoId |-> currentVideoId,
                          documents |-> r.documents, videos |-> r.videos,
                          totalSources |-> r.totalSources]
  /\ UNCHANGED <<now, pc, relational, cleanupScheduled, restarts>>

\* ------------------------------------------- calls followed await by await
\* Each action below is the stretch of a method between two awaits; the
\* stretches of different calls interleave. initialize() is taken in one
\* stretch, which is one of the schedules the event loop can produce.
DeleteOps == {"deleteVectorsByDocumentId", "deleteVectorsByUserSession",
              "cleanupExpiredTemporaryVectors"}

\* the ingestions that run next to the deletions: a permanent document and
\* a temporary one of session (1, 1)
ConcurrentIngestArgs == {<<1, 1, NoId, NoId, FALSE>>, <<2, 1, 1, 1, TRUE>>}

\* the await a call reaches once the table handle is there
FirstAwait(op, args) ==
  CASE op \in DeleteOps -> "beforeCount"
    [] Len(args[3]) = 0 -> "returned"
    [] OTHER -> "embed"

\* the positions the predicate of a deletion in flight matches
HitsOfCall(k, rows) ==
  CASE k.op = "deleteVectorsByDocumentId" -> HitsOfDocument(rows, k.args[1])
    [] k.op = "deleteVectorsByUserSession" ->
         HitsOfUserSession(rows, k.args[1], k.args[2])
    [] OTHER -> HitsExpired(rows, k.cutoffDate)

\* the call is made: `if (!this.table) await this.initialize()`. For
\* processDocumentChunks args is <<documentId, subjectId, chunks, userId,
\* sessionId, isTemporary>>
CallBegin(c, op, args) ==
  /\ pc = "serving"
  /\ calls[c].op = "none"
  /\ calls' = [calls EXCEPT ![c] =
       [NoCall EXCEPT !.op = op, !.args = args,
                      !.pc = IF table THEN FirstAwait(op, args) ELSE "initialize"]]
  /\ UNCHANGED <<now, pc, db, table, videoTable, tableNames, docRows,
                 videoRows, relational, cleanupScheduled, restarts, lastOp,
                 lastSearch, purged>>

\* the lazy initialize of a call that found the handle unset
CallInitialize(c, f) ==
  /\ calls[c].pc = "initialize"
  /\ LET r == Initialize(VS, f, now)
     IN /\ SetVS(r.vs)
        /\ calls' = [calls EXCEPT ![c].ok = r.ok,
                                  ![c].pc = IF r.ok
                                            THEN FirstAwait(calls[c].op, calls[c].args)
                                            ELSE "returned"]
  /\ UNCHANGED <<now, pc, relational, cleanupScheduled, restarts, lastOp,
                 lastSearch, purged>>

\* the positions of the chunks whose embedding a call still waits for
Pending(c) ==
  IF calls[c].pc = "embed"
  THEN {i \in 1..Len(calls[c].args[3]) :
          \A k \in DOMAIN calls[c].done : calls[c].done[k][1] # i}
  ELSE {}

\* processDocumentChunks: the getEmbedding of the chunk at position i
\* resolves, in whatever order the requests are answered; the rest of the
\* record's literal is evaluated then. done lists <<position, time>> in the
\* order of completion; Promise.all resolves after the last one
CallEmbed(c, i) ==
  /\ i \in Pending(c)
  /\ calls' = [calls EXCEPT ![c].done = Append(@, <<i, now>>),
                            ![c].pc = IF Len(calls[c].done) + 1 = Len(calls[c].args[3])
                                      THEN "add" ELSE "embed"]
  /\ UNCHANGED <<now, pc, db, table, videoTable, tableNames, docRows,
                 videoRows, relational, cleanupScheduled, restarts, lastOp,
                 lastSearch, purged>>

\* processDocumentChunks: table.add(records)
CallAdd(c) ==
  /\ calls[c].pc = "add"
  /\ LET a == calls[c].args
     IN docRows' = docRows \o BatchRecords(a[1], a[2], a[3], a[4], a[5], a[6],
                                           calls[c].done)
  /\ Len(docRows') <= MaxRows
  /\ calls' = [calls EXCEPT ![c].pc = "returned"]
  /\ UNCHANGED <<now, pc, db, table, videoTable, tableNames, videoRows,
                 relational, cleanupScheduled, restarts, lastOp, lastSearch,
                 purged>>

\* a deletion: `const beforeCount = await this.table!.countRows()`
CallCountBefore(c) ==
  /\ calls[c].pc = "beforeCount"
  /\ calls' = [calls EXCEPT ![c].beforeCount = Len(docRows),
                            ![c].cutoffDate = CutoffDate(now),
                            ![c].pc = "delete"]
  /\ UNCHANGED <<now, pc, db, table, videoTable, tableNames, docRows,
                 videoRows, relational, cleanupScheduled, restarts, lastOp,
                 lastSearch, purged>>

\* a deletion: `await this.table!.delete(predicate)`; removed is the number
\* of rows this delete took out
CallDelete(c) ==
  /\ calls[c].pc = "delete"
  /\ LET hits == HitsOfCall(calls[c], docRows)
     IN /\ docRows' = SelectSeqBy(docRows, DOMAIN docRows \ hits)
        /\ calls' = [calls EXCEPT ![c].removed = Cardinality(hits),
                                  ![c].pc = "afterCount"]
  /\ UNCHANGED <<now, pc, db, table, videoTable, tableNames, videoRows,
                 relational, cleanupScheduled, restarts, lastOp, lastSearch,
                 purged>>

\* a deletion: `afterCount = await countRows(); return beforeCount - afterCount`
CallCountAfter(c) ==
  /\ calls[c].pc = "afterCount"
  /\ calls' = [calls EXCEPT ![c].count = calls[c].beforeCount - Len(docRows),
                            ![c].pc = "returned"]
  /\ UNCHANGED <<now, pc, db, table, videoTable, tableNames, docRows,
                 videoRows, relational, cleanupScheduled, restarts, lastOp,
                 lastSearch, purged>>

\* the caller has taken the result of its call
CallReturn(c) ==
  /\ calls[c].pc = "returned"
  /\ calls' = [calls EXCEPT ![c] = NoCall]
  /\ UNCHANGED <<now, pc, db, table, videoTable, tableNames, docRows,
                 videoRows, relational, cleanupScheduled, restarts, lastOp,
                 lastSearch, purged>>

\* scoreDocument applied to one raw result: a row written at createdAt (or
\* carrying none) seen at the present hour
ScoreDocumentCall(createdAt, distance, category) ==
  /\ Idle
  /\ createdAt = NoId \/ createdAt <= now
  /\ LET doc == [row |-> [createdAt |-> createdAt], distance |-> distance]
     IN lastOp' = [NoOp EXCEPT !.name = "scoreDocument",
                               !.args = <<createdAt, distance, category>>,
                               !.response = <<TemporalScore(doc.row, now),
                                              ScoreDocument(doc, category, now)>>]
  /\ UNCHANGED <<now, pc, db, table, videoTable, tableNames, docRows,
                 videoRows, relational, cleanupScheduled, restarts,
                 lastSearch, purged, calls>>

\* the outcomes a lazy initialize can have in this state: none to choose
\* when both handles are set
Outcomes == IF table /\ videoTable THEN {"ok"} ELSE InitOutcomes

\* the same with the failures after the connection left out
ConnectOutcomes == IF table /\ videoTable THEN {"ok"} ELSE BootOutcomes

\* ---- ranking: ingestion as time passes, and retrieval
NextRetrieval ==
  \/ Tick
  \/ Return
  \/ \E f \in BootOutcomes : RegisterRoutes(f)
  \/ \E a \in IngestArgs, f \in ConnectOutcomes :
       ProcessDocumentChunksCall(a[1], a[2], SingleChunk(a), a[3], a[4], a[5], f)
  \/ \E a \in SearchArgs, topK \in TopKs, f \in ConnectOutcomes :
       SearchDocumentsWithContextCall(a[1], a[2], a[3], a[4], topK, f)

SpecRetrieval == Init /\ [][NextRetrieval]_vars

\* ---- ingestion, deletion by document and the retry path, and retrieval
NextReingest ==
  \/ Return
  \/ \E f \in BootOutcomes : RegisterRoutes(f)
  \/ Restart
  \/ \E a \in IngestArgs, chunks \in ChunkLists, f \in ConnectOutcomes :
       ProcessDocumentChunksCall(a[1], a[2], chunks, a[3], a[4], a[5], f)
  \/ \E f \in ConnectOutcomes : RetryIngestion(f)
  \/ \E documentId \in IngestedIds, f \in ConnectOutcomes :
       DeleteVectorsByDocumentIdCall(documentId, f)
  \/ \E a \in SearchArgs, topK \in TopKs, f \in ConnectOutcomes :
       SearchDocumentsWithContextCall(a[1], a[2], a[3], a[4], topK, f)

SpecReingest == Init /\ [][NextReingest]_vars

\* ---- the video question-and-answer combiner
NextVideoQA ==
  \/ Return
  \/ \E f \in InitOutcomes : RegisterRoutes(f)
  \/ \E a \in IngestArgs, chunks \in ChunkLists, f \in Outcomes :
       ProcessDocumentChunksCall(a[1], a[2], chunks, a[3], a[4], a[5], f)
  \/ \E subjectId \in Subjects, chunks \in ChunkLists, f \in Outcomes :
       CreateVideoWithChunks(subjectId, chunks, f)
  \/ \E videoId \in DocIds, f \in Outcomes : DeleteVideoRoute(videoId, f)
  \/ \E q \in Queries, subjectId \in Subjects, topK \in CombinedTopKs,
        currentVideoId \in {NoId, 1}, f \in Outcomes :
       SearchCombinedForVideoQACall(q, subjectId, topK, currentVideoId, f)

SpecVideoQA == Init /\ [][NextVideoQA]_vars

\* ---- expiry: uploads, the sweeps, the hourly job, restarts
NextExpiry ==
  \/ Tick
  \/ Return
  \/ \E f \in BootOutcomes : RegisterRoutes(f)
  \/ Restart
  \/ CreateChatSession(1)
  \/ \E isTemp \in BOOLEAN, o \in UploadArgs, chunks \in UploadChunks,
        f \in ConnectOutcomes :
       UploadDocument(isTemp, 1, o[1], o[2], chunks, f)
  \/ \E o \in OwnerArgs, f \in ConnectOutcomes :
       DeleteVectorsByUserSessionRoute(o[1], o[2], f)
  \/ \E f \in ConnectOutcomes : CleanupExpiredTemporaryVectorsRoute(f)
  \/ \E f \in ConnectOutcomes : CleanupExpiredTemporaryDocumentsRoute(f)
  \/ \E f \in ConnectOutcomes : PeriodicCleanup(f)

SpecExpiry == Init /\ [][NextExpiry]_vars

\* ---- deletion of documents, temporary documents, sessions and videos
NextDeletion ==
  \/ Return
  \/ \E f \in BootOutcomes : RegisterRoutes(f)
  \/ CreateChatSession(1)
  \/ \E isTemp \in BOOLEAN, o \in UploadArgs, chunks \in ChunkLists,
        f \in ConnectOutcomes :
       UploadDocument(isTemp, 1, o[1], o[2], chunks, f)
  \/ \E subjectId \in Subjects, chunks \in ChunkLists, f \in ConnectOutcomes :
       CreateVideoWithChunks(subjectId, chunks, f)
  \/ \E id \in DocIds, f \in ConnectOutcomes : DeleteDocumentRoute(id, f)
  \/ \E id \in DocIds : DeleteTemporaryDocument(id)
  \/ \E id \in 1..MaxSessionId, f \in ConnectOutcomes :
       DeleteChatSessionRoute(id, f)
  \/ \E videoId \in DocIds, f \in ConnectOutcomes : DeleteVideoRoute(videoId, f)

SpecDeletion == Init /\ [][NextDeletion]_vars

\* ---- the features that index or retrieve as a side step
NextDegraded ==
  \/ Return
  \/ \E f \in InitOutcomes : RegisterRoutes(f)
  \/ CreateChatSession(1)
  \/ \E isTemp \in BOOLEAN, o \in UploadArgs, chunks \in UploadChunks, f \in Outcomes :
       UploadDocument(isTemp, 1, o[1], o[2], chunks, f)
  \/ \E chunks \in ChunkLists, f \in Outcomes : CreateVideoWithChunks(1, chunks, f)
  \/ \E q \in Queries, f \in Outcomes : ChatSend(q, 1, 1, 1, f)

SpecDegraded == Init /\ [][NextDegraded]_vars

\* ---- deletions by predicate next to calls that run at the same time
NextConcurrentDeletion ==
  \/ Return
  \/ \E f \in BootOutcomes : RegisterRoutes(f)
  \/ \E c \in Callers, a \in ConcurrentIngestArgs :
       CallBegin(c, "processDocumentChunks",
                 <<a[1], a[2], SingleChunk(a), a[3], a[4], a[5]>>)
  \/ \E c \in Callers, a \in ConcurrentIngestArgs :
       CallBegin(c, "deleteVectorsByDocumentId", <<a[1]>>)
  \/ \E c \in Callers : CallBegin(c, "deleteVectorsByUserSession", <<1, 1>>)
  \/ \E c \in Callers : CallBegin(c, "cleanupExpiredTemporaryVectors", <<>>)
  \/ \E c \in Callers, f \in BootOutcomes : CallInitialize(c, f)
  \/ \E c \in Callers : \E i \in Pending(c) : CallEmbed(c, i)
  \/ \E c \in Callers : CallAdd(c)
  \/ \E c \in Callers : CallCountBefore(c)
  \/ \E c \in Callers : CallDelete(c)
  \/ \E c \in Callers : CallCountAfter(c)
  \/ \E c \in Callers : CallReturn(c)

SpecConcurrentDeletion == Init /\ [][NextConcurrentDeletion]_vars

\* ---- two uploads at the same time: caller c ingests document c, once
NextConcurrentIngestion ==
  \/ Return
  \/ \E f \in BootOutcomes : RegisterRoutes(f)
  \/ \E c \in Callers, chunks \in ChunkLists :
       CallBegin(c, "processDocumentChunks", <<c, 1, chunks, NoId, NoId, FALSE>>)
  \/ \E c \in Callers, f \in BootOutcomes : CallInitialize(c, f)
  \/ \E c \in Callers : \E i \in Pending(c) : CallEmbed(c, i)
  \/ \E c \in Callers : CallAdd(c)

SpecConcurrentIngestion == Init /\ [][NextConcurrentIngestion]_vars

\* ---- the combiner over a store of one document and two videos, the
\* second of which is the one being watched
\* transcripts of up to MaxTranscript chunks
MaxTranscript == 4
TranscriptLists == UNION {[1..n -> Texts] : n \in 0..MaxTranscript}

\* the totals asked of the combiner: 1 (no transcript share), 4 and the 7
\* of POST /api/videos/chat (5 documents, 2 transcripts)
BoostTopKs == {1, 4, 7}

\* a query nearer to "b" than to "a", by less than half
BoostQueries == Queries \cup {Profile(MaxDistance + 1, MaxDistance)}

\* the store after document 1 and videos 1 and 2 of subject 1 were indexed
\* by a process that started well
IndexedStore(chunks, transcript1, transcript2) ==
  LET v0 == [db |-> TRUE, table |-> TRUE, videoTable |-> TRUE,
             tableNames |-> {"documents", "video_transcripts"},
             docRows |-> <<>>, videoRows |-> <<>>, dropped |-> {}]
      v1 == ProcessDocumentChunks(v0, "ok", 1, 1, chunks, NoId, NoId, FALSE, 0).vs
      v2 == ProcessVideoTranscriptChunks(v1, "ok", 1, 1, transcript1, 0).vs
  IN ProcessVideoTranscriptChunks(v2, "ok", 2, 1, transcript2, 0).vs

InitIndexed ==
  /\ now = 0
  /\ pc = "serving"
  /\ \E chunks \in ChunkLists, transcript1 \in TranscriptLists, transcript2 \in ChunkLists :
       LET v == IndexedStore(chunks, transcript1, transcript2)
       IN /\ db = v.db
          /\ table = v.table
          /\ videoTable = v.videoTable
          /\ tableNames = v.tableNames
          /\ docRows = v.docRows
          /\ videoRows = v.videoRows
  /\ temporaryDocuments = {}
  /\ chatSessions = {}
  /\ nextId = [doc |-> 2, temp |-> 1, session |-> 1, video |-> 3]
  /\ cleanupScheduled = TRUE
  /\ restarts = 0
  /\ lastOp = NoOp
  /\ lastSearch = NoSearch
  /\ purged = {}
  /\ calls = [c \in Callers |-> NoCall]

NextVideoBoost ==
  \/ Return
  \/ \E q \in BoostQueries, topK \in BoostTopKs, currentVideoId \in {NoId, 2} :
       SearchCombinedForVideoQACall(q, 1, topK, currentVideoId, "ok")

SpecVideoBoost == InitIndexed /\ [][NextVideoBoost]_vars

\* ---- the scoring function as the hours pass
NextScoring ==
  \/ Tick
  \/ Return
  \/ \E createdAt \in Times \cup {NoId}, distance \in 0..MaxDistance,
        category \in {"temporary", "permanent", "other"} :
       ScoreDocumentCall(createdAt, distance, category)

SpecScoring == Init /\ [][NextScoring]_vars

\* ---- the operations that create a collection anew
NextRecreate ==
  \/ Return
  \/ \E f \in InitOutcomes : RegisterRoutes(f)
  \/ Restart
  \/ \E chunks \in ChunkLists, f \in Outcomes : CreateVideoWithChunks(1, chunks, f)
  \/ \E videoId \in DocIds, f \in Outcomes : DeleteVideoRoute(videoId, f)
  \/ \E f \in Outcomes : CleanupAllVideoVectorsRoute(f)
  \/ \E videoId \in DocIds, f \in Outcomes : DeleteVideoVectorsCall(videoId, f)

SpecRecreate == Init /\ [][NextRecreate]_vars

\* ---- a failed start, and the operations on the documents index after it
NextUnavailable ==
  \/ Return
  \/ \E f \in InitOutcomes : RegisterRoutes(f)
  \/ \E a \in IngestArgs, f \in Outcomes :
       ProcessDocumentChunksCall(a[1], a[2], SingleChunk(a), a[3], a[4], a[5], f)
  \/ \E a \in SearchArgs, topK \in TopKs, f \in Outcomes :
       SearchDocumentsWithContextCall(a[1], a[2], a[3], a[4], topK, f)
  \/ \E documentId \in DocIds, f \in Outcomes :
       DeleteVectorsByDocumentIdCall(documentId, f)
  \/ \E f \in Outcomes : GetVectorStatsRoute(f)

SpecUnavailable == Init /\ [][NextUnavailable]_vars

\* ---- the ingestion batches of one caller followed embedding by
\* embedding, as time passes
NextBatch ==
  \/ Tick
  \/ Return
  \/ \E f \in BootOutcomes : RegisterRoutes(f)
  \/ \E a \in ConcurrentIngestArgs, chunks \in ChunkLists :
       CallBegin(1, "processDocumentChunks",
                 <<a[1], a[2], chunks, a[3], a[4], a[5]>>)
  \/ \E f \in BootOutcomes : CallInitialize(1, f)
  \/ \E i \in Pending(1) : CallEmbed(1, i)
  \/ CallAdd(1)
  \/ CallReturn(1)

SpecBatch == Init /\ [][NextBatch]_vars

\* ---- ingestion of chunk lists with and without content
\* chunk lists that are empty, blank throughout, blank in part, and not
\* blank; chunkText hands a short text back as one chunk whatever it holds
BlankChunkLists == {<<>>, <<" ">>, <<"a", " ">>, <<"a">>}

\* the same for transcripts, where a chunk's text may also be empty
BlankTranscriptLists == BlankChunkLists \cup {<<"">>, <<"", "a">>}

NextEmptyInput ==
  \/ Return
  \/ \E f \in BootOutcomes : RegisterRoutes(f)
  \/ \E a \in ConcurrentIngestArgs, chunks \in BlankChunkLists, f \in ConnectOutcomes :
       ProcessDocumentChunksCall(a[1], a[2], chunks, a[3], a[4], a[5], f)
  \/ \E videoId \in DocIds, chunks \in BlankTranscriptLists, f \in ConnectOutcomes :
       ProcessVideoTranscriptChunksCall(videoId, 1, chunks, f)

SpecEmptyInput == Init /\ [][NextEmptyInput]_vars

\* ---- ingestion under every combination of owner arguments
\* a userId or sessionId argument: left out, zero, or a real id
OwnerIds == {NoId, 0, 1}

NextOwnership ==
  \/ Return
  \/ \E f \in BootOutcomes : RegisterRoutes(f)
  \/ \E userId \in OwnerIds, sessionId \in OwnerIds, isTemporary \in BOOLEAN,
        f \in ConnectOutcomes :
       ProcessDocumentChunksCall(1, 1, <<"a">>, userId, sessionId, isTemporary, f)
  \/ \E userId \in OwnerIds, sessionId \in OwnerIds, f \in ConnectOutcomes :
       ProcessTemporaryDocumentChunksCall(2, userId, sessionId, 1, <<"a">>, f)

SpecOwnership == Init /\ [][NextOwnership]_vars

\* ---- the statistics of the documents collection as rows come and age
NextStatistics ==
  \/ Tick
  \/ Return
  \/ \E f \in BootOutcomes : RegisterRoutes(f)
  \/ \E a \in IngestArgs, f \in ConnectOutcomes :
       ProcessDocumentChunksCall(a[1], a[2], SingleChunk(a), a[3], a[4], a[5], f)
  \/ \E f \in ConnectOutcomes : GetVectorStatsRoute(f)

SpecStatistics == Init /\ [][NextStatistics]_vars

\* ---- every operation
Next ==
  \/ NextRetrieval \/ NextReingest \/ NextVideoQA \/ NextExpiry \/ NextDeletion
  \/ NextDegraded \/ NextConcurrentDeletion \/ NextConcurrentIngestion
  \/ NextVideoBoost \/ NextScoring \/ NextRecreate \/ NextUnavailable
  \/ NextBatch \/ NextEmptyInput \/ NextOwnership \/ NextStatistics

Spec == Init /\ [][Next]_vars

\* the shape of the state in the specifications that start from Init
TypeOK ==
  /\ now \in Times
  /\ pc \in {"boot", "serving"}
  /\ Len(docRows) <= MaxRows
  /\ Len(videoRows) <= MaxVideoRows
  /\ purged \subseteq IngestedIds

\* ------------------------------------------------------------ properties
\* the documents the last retrieval returned
Returned == lastSearch.documents

\* the last call was searchDocumentsWithContext / searchDocuments
Searched == lastSearch.kind = "context"

\* the caller of the last retrieval gave both ids
WithIdentity == lastSearch.userId # NoId /\ lastSearch.sessionId # NoId

\* the row belongs to somebody other than the caller of the last retrieval
OwnedByAnother(r) ==
  r.isTemporary /\ (r.userId # lastSearch.userId \/ r.sessionId # lastSearch.sessionId)

\* the buckets whose filter lets the row through for a caller
Buckets(r, userId, sessionId) ==
  {b \in {"temporary", "permanent", "other"} :
     \/ b = "temporary" /\ IsTemporaryDoc(r, userId, sessionId)
     \/ b = "permanent" /\ IsPermanentDoc(r)
     \/ b = "other" /\ IsOtherDoc(r, userId, sessionId)}

\* no stored row is temporary and older than the retention window at time t
NoExpiredRows(rows, t) ==
  \A i \in DOMAIN rows : ~(rows[i].isTemporary /\ rows[i].createdAt < t - RetentionWindow)

\* (text, chunkIndex) of each row, in order
TextAndIndex(rows) == [i \in DOMAIN rows |-> <<rows[i].text, rows[i].chunkIndex>>]

\* the rows of one ingestion into an index that holds nothing of the document
CleanIngestion(documentId, a, t) ==
  ChunkRecords(documentId, a[1], a[2], a[3], a[4], a[5], t)

\* C1: for every stored record and every caller, searchDocumentsWithContext
\* puts the record in exactly one of the buckets temporary, permanent and
\* other: the three filters are pairwise disjoint and cover every record.
C1_BucketExclusivity ==
  Searched =>
    \A i \in DOMAIN docRows :
      Cardinality(Buckets(docRows[i], lastSearch.userId, lastSearch.sessionId)) = 1

\* C2: the list searchDocumentsWithContext returns, with or without caller
\* identity, holds no index row more than once.
C2_ResultsDeduplicated ==
  Searched =>
    \A i, j \in DOMAIN Returned : i # j => Returned[i].pos # Returned[j].pos

\* C3: with caller identity, every temporary-bucket result scores strictly
\* above every permanent-bucket result, and every permanent-bucket result
\* strictly above every other-bucket result, whatever their distances and
\* ages; so the returned list is ordered bucket by bucket.
C3_BucketsNeverInterleave ==
  (Searched /\ WithIdentity) =>
    \A i, j \in DOMAIN Returned :
      /\ (Returned[i].category = "temporary" /\ Returned[j].category # "temporary")
           => (Returned[i].score > Returned[j].score /\ i < j)
      /\ (Returned[i].category = "permanent" /\ Returned[j].category = "other")
           => (Returned[i].score > Returned[j].score /\ i < j)

\* C3 witness: the caller's own temporary row, past the retention window
\* and at the largest distance, is returned ahead of a fresh permanent row
\* at distance 0.
C3_Witness ==
  /\ Searched /\ WithIdentity
  /\ \E i, j \in DOMAIN Returned :
       /\ i < j
       /\ Returned[i].category = "temporary"
       /\ Returned[i].distance = MaxDistance
       /\ TemporalScore(Returned[i].row, now) = 0
       /\ Returned[j].category = "permanent"
       /\ ~Returned[j].row.isTemporary
       /\ Returned[j].distance = 0
       /\ TemporalScore(Returned[j].row, now) = RetentionWindow

\* C4: for a caller with identity, a temporary row of another owner is
\* returned only in the bucket other, and scores below every
\* permanent-bucket result of the same call.
C4_OtherOwnersRankLowest ==
  (Searched /\ WithIdentity) =>
    \A i \in DOMAIN Returned :
      OwnedByAnother(Returned[i].row) =>
        /\ Returned[i].category = "other"
        /\ \A j \in DOMAIN Returned :
             Returned[j].category = "permanent" => Returned[i].score < Returned[j].score

\* C5: when cleanupExpiredTemporaryVectors has returned, no row is left
\* that is temporary and was created more than the retention window before
\* the sweep, and no row with isTemporary = false has been removed.
C5_SweepExact ==
  (lastOp.name = "cleanupExpiredTemporaryVectors" /\ lastOp.ok) =>
    /\ NoExpiredRows(docRows, now)
    /\ \A r \in lastOp.removed : r.isTemporary

\* C6: a run of the hourly job removes a temporary row only when the row's
\* own createdAt is more than the retention window before the run.
C6_JobRemovesOnlyExpired ==
  lastOp.name = "periodicCleanup" =>
    \A r \in lastOp.removed :
      r.isTemporary => r.createdAt < now - RetentionWindow

\* C7: after processDocumentChunks for document D, deleteVectorsByDocumentId(D)
\* and processDocumentChunks with the same chunks again, the rows of D are,
\* by text and chunkIndex, those of one clean ingestion: every chunkIndex
\* 0 .. n-1 once.
C7_RetryIdempotent ==
  (lastOp.name = "retryIngestion" /\ lastOp.ok) =>
    LET rows == RowsOf(docRows, lastOp.id)
    IN /\ TextAndIndex(rows) = TextAndIndex(CleanIngestion(lastOp.id, lastOp.args, now))
       /\ \A i \in DOMAIN rows :
            rows[i].text = lastOp.args[2][i] /\ rows[i].chunkIndex = i - 1

\* C7 witness: the retry of a two-chunk temporary document has returned
C7_Witness ==
  /\ lastOp.name = "retryIngestion" /\ lastOp.ok
  /\ Len(lastOp.args[2]) = 2
  /\ lastOp.args[5]
  /\ Len(RowsOf(docRows, lastOp.id)) = 2

\* C8: from the return of deleteVectorsByDocumentId(D) until D is ingested
\* again, no retrieval returns a row with documentId = D.
C8_DeletedStaysOut ==
  Searched => \A i \in DOMAIN Returned : Returned[i].row.documentId \notin purged

\* C8 witness: a retrieval returns rows of one document while another has
\* been deleted and not ingested since
C8_Witness ==
  /\ Searched
  /\ purged # {}
  /\ Returned # <<>>

\* C9: once deleteDocument, deleteTemporaryDocument, deleteChatSession or
\* VideoService.deleteVideo has returned, no row of the deleted document,
\* temporary document, session or video is left in either collection.
C9_NoOrphans ==
  /\ lastOp.name = "deleteDocument" =>
       \A i \in DOMAIN docRows :
         ~(docRows[i].documentId = lastOp.id /\ ~docRows[i].isTemporary)
  /\ lastOp.name = "deleteTemporaryDocument" =>
       \A i \in DOMAIN docRows :
         ~(docRows[i].documentId = lastOp.id /\ docRows[i].isTemporary)
  /\ lastOp.name = "deleteChatSession" =>
       \A i \in DOMAIN docRows :
         ~(docRows[i].sessionId = lastOp.id /\ docRows[i].isTemporary)
  /\ (lastOp.name = "deleteVideo" /\ lastOp.ok) =>
       \A i \in DOMAIN videoRows : videoRows[i].videoId # lastOp.id

\* C10: every document searchCombinedForVideoQA returns has
\* isTemporary = false.
C10_CombinerPermanentOnly ==
  lastSearch.kind = "combined" =>
    \A i \in DOMAIN Returned : ~Returned[i].row.isTemporary

\* C11: a collection is dropped only by the initialize() call of process
\* start: no operation a user triggers afterwards calls dropTable, whether
\* or not the table handles are set.
C11_DropOnlyAtStart ==
  lastOp.name # "registerRoutes" => lastOp.dropped = {}

\* C12: the initialize() of a process start keeps the vector data: every
\* row the collections held before it is there after it, and it drops no
\* collection (the collections this program creates carry the full schema).
C12_RestartPreservesRows ==
  (lastOp.name = "registerRoutes" /\ lastOp.ok) =>
    (lastOp.removed = {} /\ lastOp.dropped = {})

\* the record the last creating route made is in the relational store
RecordCreated ==
  CASE lastOp.name = "uploadDocument" -> nextId.doc > lastOp.id
    [] lastOp.name = "uploadTemporaryDocument" ->
         \E d \in temporaryDocuments : d.id = lastOp.id
    [] lastOp.name = "createVideoWithChunks" -> nextId.video > lastOp.id
    [] OTHER -> FALSE

\* C13: a failure of the vector index is not fatal to the feature that
\* called it: when the vector step of an upload (document, temporary
\* document, video) throws, the record is created and handed back all the
\* same; when generateAnswerWithContext throws, /api/chat/send still answers
\* with an assistant message generated from the default system prompt.
C13_VectorFailureNonFatal ==
  ~lastOp.ok =>
    /\ lastOp.name \in CreateOps =>
         (lastOp.response = <<lastOp.id>> /\ RecordCreated)
    /\ lastOp.name = "chatSend" => lastOp.response = <<"assistant", "default">>

C13_Witness ==
  /\ lastOp.name = "uploadTemporaryDocument"
  /\ ~lastOp.ok
  /\ lastOp.response = <<lastOp.id>>
  /\ docRows = <<>>

\* C14: a deletion by predicate returns exactly the number of rows its own
\* delete removed, never a negative number, whatever another call (an
\* ingestion, another deletion) does to the collection in between.
C14_DeleteCountExact ==
  \A c \in Callers :
    (calls[c].op \in DeleteOps /\ calls[c].pc = "returned" /\ calls[c].ok) =>
      (calls[c].count = calls[c].removed /\ calls[c].count >= 0)

\* the rows of the collection that belong to a document are its chunks, each
\* once and in order
HoldsChunksOnce(documentId, chunks) ==
  LET rows == RowsOf(docRows, documentId)
  IN /\ Len(rows) = Len(chunks)
     /\ \A i \in DOMAIN rows : rows[i].text = chunks[i] /\ rows[i].chunkIndex = i - 1

\* C15: two processDocumentChunks calls for different documents, run in any
\* interleaving (both may start before the table handle is set): once both
\* have returned successfully, the collection holds every chunk of both
\* documents exactly once.
C15_ConcurrentIngestionsKeepBoth ==
  (\A c \in Callers : /\ calls[c].op = "processDocumentChunks"
                      /\ calls[c].pc = "returned"
                      /\ calls[c].ok) =>
    \A c \in Callers : HoldsChunksOnce(calls[c].args[1], calls[c].args[3])

\* the transcript chunks the last combined retrieval returned
ReturnedVideos == lastSearch.videos

\* the last call was searchCombinedForVideoQA with a current video
CombinedWithCurrent ==
  lastSearch.kind = "combined" /\ lastSearch.currentVideoId \notin {NoId, 0}

\* twice the raw distance of a returned transcript chunk (score2 is twice
\* the score the chunk was sorted by, which is the halved distance for the
\* current video)
RawDistance2(r) ==
  IF r.videoId = lastSearch.currentVideoId THEN 2 * r.score2 ELSE r.score2

\* C16: with currentVideoId supplied, no chunk of another video stands
\* before a chunk of the current video of the same raw distance in the list
\* searchCombinedForVideoQA returns, the distance 0 included.
C16_CurrentVideoWinsTies ==
  CombinedWithCurrent =>
    \A i, j \in DOMAIN ReturnedVideos :
      (/\ i < j
       /\ ReturnedVideos[j].videoId = lastSearch.currentVideoId
       /\ ReturnedVideos[i].videoId # lastSearch.currentVideoId)
      => RawDistance2(ReturnedVideos[i]) # RawDistance2(ReturnedVideos[j])

\* both raw distances are 0 and the other video's row was written first
C16_Witness ==
  /\ CombinedWithCurrent
  /\ Len(ReturnedVideos) = 2
  /\ ReturnedVideos[1].videoId = lastSearch.currentVideoId
  /\ ReturnedVideos[2].videoId # lastSearch.currentVideoId
  /\ RawDistance2(ReturnedVideos[1]) = 0
  /\ RawDistance2(ReturnedVideos[2]) = 0
  /\ Len(videoRows) = 2
  /\ videoRows[1].videoId # lastSearch.currentVideoId

\* the positions of the transcript rows of the subject of the last combined
\* retrieval that belong (own = TRUE) or do not belong to the current video
TranscriptsOfSubject(own) ==
  {i \in DOMAIN videoRows :
     /\ videoRows[i].subjectId = lastSearch.subjectId
     /\ (videoRows[i].videoId = lastSearch.currentVideoId) = own}

\* the distance of the query of the last combined retrieval to a row
DistanceTo(i) == lastOp.args[1][videoRows[i].text]

\* the current video's rows whose halved distance is below the raw distance
\* of every row of the other videos
BoostedAhead ==
  {i \in TranscriptsOfSubject(TRUE) :
     \A j \in TranscriptsOfSubject(FALSE) : DistanceTo(i) < 2 * DistanceTo(j)}

\* C17: with currentVideoId = V and videoCount = n, whenever the collection
\* holds at least n chunks of V whose halved distance is smaller than the
\* raw distance of every chunk of other videos, the returned transcript list
\* is made of V's n nearest chunks (K = 7: V's best 2), whatever the raw
\* distances of the other videos' chunks.
C17_CurrentVideoFillsShare ==
  (/\ CombinedWithCurrent
   /\ lastOp.ok
   /\ VideoCount(lastSearch.topK) >= 1
   /\ Cardinality(BoostedAhead) >= VideoCount(lastSearch.topK))
  => /\ Len(ReturnedVideos) = VideoCount(lastSearch.topK)
     /\ \A k \in DOMAIN ReturnedVideos :
          /\ ReturnedVideos[k].videoId = lastSearch.currentVideoId
          /\ Cardinality({i \in TranscriptsOfSubject(TRUE) :
                            DistanceTo(i) < lastOp.args[1][ReturnedVideos[k].text]})
               < VideoCount(lastSearch.topK)

\* the totals over which the arithmetic of the shares is checked
MaxTotal == 40

\* C18: for every total K >= 1 the combiner asks for docCount = ceil(0.7 K)
\* documents and keeps at most videoCount = floor(0.3 K) transcript chunks
\* (K = 7: 5 and 2); the documents list has at most ceil(0.7 K) entries, the
\* videos list at most floor(0.3 K), and totalSources never exceeds K.
C18_SharesWithinTotal ==
  /\ \A K \in 1..MaxTotal :
       /\ 10 * DocCount(K) >= 7 * K /\ 10 * (DocCount(K) - 1) < 7 * K
       /\ 10 * VideoCount(K) <= 3 * K /\ 10 * (VideoCount(K) + 1) > 3 * K
       /\ DocCount(K) + VideoCount(K) <= K
  /\ DocCount(7) = 5 /\ VideoCount(7) = 2
  /\ lastSearch.kind = "combined" =>
       /\ Len(Returned) <= DocCount(lastSearch.topK)
       /\ Len(ReturnedVideos) <= VideoCount(lastSearch.topK)
       /\ lastSearch.totalSources = Len(Returned) + Len(ReturnedVideos)
       /\ lastSearch.totalSources <= lastSearch.topK

\* K = 1 with more rows in both collections than the shares let through
C18_Witness ==
  /\ lastSearch.kind = "combined"
  /\ lastSearch.topK = 1
  /\ Len(docRows) = 2 /\ Len(Returned) = 1
  /\ Len(videoRows) >= 3 /\ Len(ReturnedVideos) = 0
  /\ lastSearch.totalSources = 1

\* the age, in hours, of the row the last scoreDocument call was given
ScoredAge == now - lastOp.args[1]

\* C19: temporalScore is 1 at age 0 and 0 at every age of 2 hours or more,
\* decays linearly in between and never rises with age; a row with no
\* createdAt gets 0. (Scores are in units of 1/RetentionWindow.)
C19_TemporalDecay ==
  /\ lastOp.name = "scoreDocument" =>
       /\ lastOp.args[1] = NoId => lastOp.response[1] = 0
       /\ lastOp.args[1] # NoId =>
            /\ ScoredAge = 0 => lastOp.response[1] = RetentionWindow
            /\ ScoredAge >= RetentionWindow => lastOp.response[1] = 0
            /\ ScoredAge <= RetentionWindow =>
                 lastOp.response[1] = RetentionWindow - ScoredAge
  /\ \A age1, age2 \in Times :
       age1 <= age2 => TemporalScore([createdAt |-> 0], age1)
                         >= TemporalScore([createdAt |-> 0], age2)

\* a row older than the window: the unclamped decay would be negative
C19_Witness ==
  /\ lastOp.name = "scoreDocument"
  /\ lastOp.args[1] # NoId
  /\ ScoredAge > RetentionWindow
  /\ lastOp.response[1] = 0

\* the positions of the rows that pass the subject filter of the last
\* retrieval
PassSubjectFilter ==
  {p \in DOMAIN docRows :
     lastSearch.subjectId = NoId \/ docRows[p].subjectId = lastSearch.subjectId}

\* C20: when userId or sessionId is left out, every raw result that passes
\* the subject filter is a candidate exactly once, is labelled 'permanent'
\* and is scored (1 - distance) + 5, so that the returned list is in the
\* order of ascending distance whatever isTemporary, the owner and the age
\* of the rows are.
C20_FallbackByDistanceOnly ==
  (Searched /\ ~WithIdentity /\ lastOp.ok) =>
    /\ \A p \in PassSubjectFilter :
         LET times == Cardinality({i \in DOMAIN Returned : Returned[i].pos = p})
         IN times <= 1 /\ (Len(Returned) < lastSearch.topK => times = 1)
    /\ \A i \in DOMAIN Returned :
         /\ Returned[i].pos \in PassSubjectFilter
         /\ Returned[i].category = "permanent"
         /\ Returned[i].score = FallbackScore(Returned[i])
    /\ \A i, j \in DOMAIN Returned :
         i < j => Returned[i].distance <= Returned[j].distance

\* the scored candidates of the last searchDocumentsWithContext call, as
\* the store holds them when it returns
Candidates ==
  Unkey(ScoredResults(docRows, lastOp.args[1], lastSearch.subjectId,
                      lastSearch.userId, lastSearch.sessionId,
                      lastSearch.topK, now))

\* C21: searchDocumentsWithContext returns at most K candidates in the order
\* of descending composite score; no candidate left out has a higher score
\* than one that is returned, and with fewer than K candidates all of them
\* are returned.
C21_TopKByScore ==
  (Searched /\ lastOp.ok) =>
    /\ Len(Returned) <= lastSearch.topK
    /\ \A i, j \in DOMAIN Returned : i < j => Returned[i].score >= Returned[j].score
    /\ \A c \in Range(Candidates) :
         /\ Count(Returned, c) <= Count(Candidates, c)
         /\ Count(Returned, c) < Count(Candidates, c) =>
              \A i \in DOMAIN Returned : Returned[i].score >= c.score
    /\ \A i \in DOMAIN Returned : Returned[i] \in Range(Candidates)
    /\ Len(Candidates) < lastSearch.topK => Len(Returned) = Len(Candidates)

\* a candidate with the best distance but a lower bucket is left out
C21_Witness ==
  /\ Searched /\ lastOp.ok
  /\ Len(Candidates) > lastSearch.topK
  /\ Len(Returned) = lastSearch.topK
  /\ \E c \in Range(Candidates) :
       /\ Count(Returned, c) = 0
       /\ \A i \in DOMAIN Returned : c.distance < Returned[i].distance

\* C22: when searchDocumentsWithContext is given a subject filter, every row
\* it returns has that subjectId, with and without the caller's identity.
C22_SubjectFilterHolds ==
  (Searched /\ lastSearch.subjectId # NoId) =>
    \A i \in DOMAIN Returned : Returned[i].row.subjectId = lastSearch.subjectId

\* the no-identity path with a row of another subject in the collection
C22_Witness ==
  /\ Searched /\ ~WithIdentity
  /\ lastSearch.subjectId # NoId
  /\ Len(Returned) > 0
  /\ \E p \in DOMAIN docRows : docRows[p].subjectId # lastSearch.subjectId

\* a row written only to fix the schema of a collection
IsPlaceholder(r) == r.text \in {"init", "schema"}

\* C23: no placeholder row is left behind: when initialize() (at start),
\* deleteVideoVectors() or cleanupAllVideoVectors() has completed, neither
\* collection holds a row with text 'init' or 'schema', so a collection that
\* was just recreated has no rows.
C23_NoPlaceholderLeft ==
  (lastOp.ok /\ lastOp.name \in {"registerRoutes", "deleteVideo", "cleanupAllVideoVectors"})
  => /\ \A i \in DOMAIN docRows : ~IsPlaceholder(docRows[i])
     /\ \A i \in DOMAIN videoRows : ~IsPlaceholder(videoRows[i])

\* the initialize() of registerRoutes threw: the hourly cleanup was not armed
InitializeFailed == pc = "serving" /\ ~cleanupScheduled

\* the operations on the documents index
IndexOps == {"processDocumentChunks", "searchDocumentsWithContext",
             "deleteVectorsByDocumentId", "getVectorStats"}

\* C24: once initialize() has failed at start, every later ingestion,
\* search, delete or statistics call fails, and neither drops a collection
\* nor removes a row
C24_FailedInitFailsLater ==
  (InitializeFailed /\ lastOp.name \in IndexOps)
  => /\ ~lastOp.ok
     /\ lastOp.dropped = {}
     /\ lastOp.removed = {}

\* the chunkIndex values of each document's rows are 0..k-1 for some k
ContiguousIndexes ==
  \A d \in DocIds :
    LET ix == {docRows[i].chunkIndex : i \in HitsOfDocument(docRows, d)}
    IN ix = 0..(Cardinality(ix) - 1)

\* C25: the rows that the table.add of one processDocumentChunks call writes
\* are the chunks of the input list in input order, the row of the chunk at
\* position p carrying chunkIndex p (from zero), whatever the order in which
\* the embeddings of the batch arrived; the chunkIndex values of every
\* document in the index are then contiguous from zero.
C25_ChunkIndexIsPosition ==
  [][\A c \in Callers :
       (calls[c].pc = "add" /\ calls'[c].pc = "returned") =>
         LET chunks == calls[c].args[3]
         IN /\ Len(docRows') = Len(docRows) + Len(chunks)
            /\ \A p \in 1..Len(chunks) :
                 /\ docRows'[Len(docRows) + p].text = chunks[p]
                 /\ docRows'[Len(docRows) + p].chunkIndex = p - 1
                 /\ docRows'[Len(docRows) + p].documentId = calls[c].args[1]
            /\ ContiguousIndexes']_vars

\* a batch of two chunks whose second embedding arrived first, an hour
\* before the first, has been written
C25_Witness ==
  \E c \in Callers :
    /\ calls[c].pc = "returned"
    /\ calls[c].ok
    /\ Len(calls[c].done) = 2
    /\ calls[c].done[1][1] = 2
    /\ calls[c].done[1][2] < calls[c].done[2][2]
    /\ Len(RowsOf(docRows, calls[c].args[1])) = 2

\* every text of the list is empty or whitespace (so is the empty list)
AllBlank(chunks) == \A i \in DOMAIN chunks : IsBlank(chunks[i])

\* neither collection holds a row of an empty or all-whitespace text
NoBlankRow ==
  /\ \A i \in DOMAIN docRows : ~IsBlank(docRows[i].text)
  /\ \A i \in DOMAIN videoRows : ~IsBlank(videoRows[i].text)

\* C26: a processDocumentChunks or processVideoTranscriptChunks call whose
\* chunk list is empty or holds only empty or all-whitespace texts returns
\* without an error and leaves both collections as they were, and no call
\* of either writes a row for an empty or all-whitespace text.
C26_EmptyInputIsNoOp ==
  [][(Idle /\ lastOp'.name \in {"processDocumentChunks",
                                "processVideoTranscriptChunks"})
     => /\ AllBlank(lastOp'.args[2]) =>
             /\ lastOp'.ok
             /\ docRows' = docRows
             /\ videoRows' = videoRows
        /\ NoBlankRow']_vars

\* C27: every row of the documents collection that is temporary carries an
\* owner (userId or sessionId other than 0), and every row that is not
\* temporary carries none (both 0), whatever owner arguments, given, zero or
\* left out, processDocumentChunks and processTemporaryDocumentChunks were
\* called with.
C27_OwnershipInvariant ==
  \A i \in DOMAIN docRows :
    /\ docRows[i].isTemporary => (docRows[i].userId # 0 \/ docRows[i].sessionId # 0)
    /\ ~docRows[i].isTemporary => (docRows[i].userId = 0 /\ docRows[i].sessionId = 0)

\* the counts the last getVectorStats call returned
ReturnedStats == lastOp.response[1]

\* C28: the counts of every getVectorStats call partition the rows:
\* temporaryCount + permanentCount = totalCount and expiredCount <=
\* temporaryCount, temporaryCount being the number of rows with isTemporary
\* and expiredCount the number of those created more than two hours ago.
C28_StatsPartition ==
  (lastOp.name = "getVectorStats" /\ lastOp.ok)
  => /\ ReturnedStats.temporaryCount + ReturnedStats.permanentCount
          = ReturnedStats.totalCount
     /\ ReturnedStats.expiredCount <= ReturnedStats.temporaryCount
     /\ ReturnedStats.temporaryCount
          = Cardinality({i \in DOMAIN docRows : docRows[i].isTemporary})
     /\ ReturnedStats.expiredCount
          = Cardinality({i \in DOMAIN docRows :
                           /\ docRows[i].isTemporary
                           /\ now - docRows[i].createdAt > RetentionWindow})

\* C29: a deleteVectorsByDocumentId(D) call removes rows of the permanent
\* document D only: no row of a temporary document, the one with the same
\* numeric id D included, and no row of another document leaves the index.
C29_PermanentDeleteSparesTemporary ==
  (lastOp.name = "deleteVectorsByDocumentId" /\ lastOp.ok)
  => \A x \in lastOp.removed : x.documentId = lastOp.id /\ ~x.isTemporary

\* C30: a deleteVideoVectors(V) call that returns leaves no row of video V
\* in the collection, leaves every row of every other video in it (two
\* videos may hold chunks of the same text, hence of the same vector), and
\* returns the number of rows it removed.
C30_DeleteVideoExact ==
  [][(Idle /\ lastOp'.name = "deleteVideoVectors" /\ lastOp'.ok)
     => /\ \A i \in DOMAIN videoRows' : videoRows'[i].videoId # lastOp'.id
        /\ \A i \in DOMAIN videoRows :
             videoRows[i].videoId # lastOp'.id =>
               Count(videoRows', videoRows[i]) = Count(videoRows, videoRows[i])
        /\ lastOp'.response[1] = Len(videoRows) - Len(videoRows')]_vars

====
